---- MODULE Spec2Model ----
(***************************************************************************)
(* Policy risk-analysis engine of aws-iam-viewer (src/lib/api.ts):         *)
(* the rule catalog DANGEROUS_PATTERNS, analyzePolicy, analyzeAllPolicies, *)
(* getHighRiskPolicies and getSecuritySummary.                             *)
(*                                                                         *)
(* JSON values are tagged records, so that the shape tests of the code     *)
(* (Array.isArray, typeof, truthiness, property access on null) are        *)
(* computed and not assumed.  A call either returns a value or throws a    *)
(* TypeError; both outcomes are results of the model.                      *)
(***************************************************************************)
EXTENDS Integers, Sequences, FiniteSets, TLC

VARIABLES
    policies,   \* the Record<string, IAMPolicy> handed to the analysis, as its entries in insertion order
    lastIndex,  \* the lastIndex slot of the two RegExp objects held by DANGEROUS_PATTERNS
    history,    \* the first analyzePolicy call made and its outcome, and whether that call was made again later
    ret,        \* the last call made and its outcome
    page,       \* the page whose load effect runs: its position, fetch results and React state
    LLM_DISABLED_RUNTIME,   \* the module variable of api.ts caching the runtime config
    calls,      \* the ApiService method calls made, each with its position
    network     \* the endpoints requested with fetch, in order

vars == <<policies, lastIndex, history, ret, page, LLM_DISABLED_RUNTIME, calls, network>>

(***************************************************************************)
(* Bounds of the model.                                                    *)
(***************************************************************************)
MaxStatements == 2
MaxExtra == 1
MaxPolicies == 3

(***************************************************************************)
(* JSON values.                                                            *)
(***************************************************************************)
Undefined == [t |-> "undefined"]
Null == [t |-> "null"]
Bool(b) == [t |-> "boolean", b |-> b]
Num(n) == [t |-> "number", n |-> n]
Str(s) == [t |-> "string", s |-> s]
Arr(q) == [t |-> "array", a |-> q]

IsArray(v) == v.t = "array"
IsString(v) == v.t = "string"
IsObject(v) == v.t = "object"
IsNullish(v) == v.t \in {"undefined", "null"}

\* ToBoolean
Truthy(v) ==
    CASE v.t = "undefined" -> FALSE
      [] v.t = "null" -> FALSE
      [] v.t = "boolean" -> v.b
      [] v.t = "number" -> v.n # 0
      [] v.t = "string" -> v.s # ""
      [] OTHER -> TRUE

\* === on two JSON scalars (objects and arrays compare by identity and are never
\* compared by the code)
StrictEquals(x, y) ==
    /\ x.t = y.t
    /\ CASE x.t = "string" -> x.s = y.s
         [] x.t = "number" -> x.n = y.n
         [] x.t = "boolean" -> x.b = y.b
         [] x.t \in {"undefined", "null"} -> TRUE
         [] OTHER -> FALSE

\* Objects of the IAM export
Statement(effect, action, resource) ==
    [t |-> "object", Effect |-> effect, Action |-> action, Resource |-> resource]
Document(statement) == [t |-> "object", Statement |-> statement]
Version(id, document) == [t |-> "object", VersionId |-> id, Document |-> document]
Policy(id, name, default, versions) ==
    [PolicyId |-> id, PolicyName |-> name, DefaultVersionId |-> default,
     PolicyVersionList |-> versions]

\* Property reads v.Effect, v.Action, v.Resource, v.Statement, v.VersionId, v.Document:
\* on a primitive that is neither null nor undefined the read gives undefined; on
\* null or undefined it throws (the callers test IsNullish first).
GetEffect(v) == IF IsObject(v) THEN v.Effect ELSE Undefined
GetAction(v) == IF IsObject(v) THEN v.Action ELSE Undefined
GetResource(v) == IF IsObject(v) THEN v.Resource ELSE Undefined
GetStatement(v) == IF IsObject(v) THEN v.Statement ELSE Undefined
GetVersionId(v) == IF IsObject(v) THEN v.VersionId ELSE Undefined
GetDocument(v) == IF IsObject(v) THEN v.Document ELSE Undefined

(***************************************************************************)
(* The rule catalog.                                                       *)
(***************************************************************************)
\* /^\*$/ and /^iam:\*$/ : an anchored literal and the flags of the RegExp object
\* (a slip: /^\*$/g, which makes test() keep lastIndex between calls)
WildcardPermissionPatternGlobal == [literal |-> "*", length |-> 1, global |-> TRUE]
WildcardPermissionPattern == [literal |-> "*", length |-> 1, global |-> FALSE]
\* (a slip: /^iam:\*$/g)
WildcardIamPatternGlobal == [literal |-> "iam:*", length |-> 5, global |-> TRUE]
WildcardIamPattern == [literal |-> "iam:*", length |-> 5, global |-> FALSE]

DANGEROUS_PATTERNS ==
    [ WILDCARD_PERMISSION |->
        [pattern |-> WildcardPermissionPattern, severity |-> "HIGH", title |-> "Wildcard Permission"],
      WILDCARD_IAM |->
        [pattern |-> WildcardIamPattern, severity |-> "HIGH", title |-> "Wildcard IAM Permission"],
      WILDCARD_RESOURCE |->
        [severity |-> "HIGH", title |-> "Wildcard Resource"],
      CREATE_POLICY_VERSION |->
        [pattern |-> "iam:CreatePolicyVersion", severity |-> "HIGH", title |-> "Create Policy Version"],
      POLICY_VERSION_MANIPULATION |->
        [patterns |-> <<"iam:CreatePolicyVersion", "iam:SetDefaultPolicyVersion">>,
         severity |-> "HIGH", title |-> "Policy Version Manipulation"],
      PASSROLE_ANY |->
        [pattern |-> "iam:PassRole", severity |-> "HIGH", title |-> "PassRole Permission Present"],
      PASSROLE_EC2 |->
        [patterns |-> <<"iam:PassRole", "ec2:RunInstances">>,
         severity |-> "HIGH", title |-> "Privilege Escalation via EC2"],
      ACCESS_KEY_CREATION |->
        [pattern |-> "iam:CreateAccessKey", severity |-> "HIGH", title |-> "Access Key Creation"],
      LOGIN_PROFILE_MANIPULATION |->
        [patterns |-> <<"iam:CreateLoginProfile", "iam:UpdateLoginProfile">>,
         severity |-> "HIGH", title |-> "Login Profile Manipulation"],
      POLICY_ATTACHMENT |->
        [patterns |-> <<"iam:AttachUserPolicy", "iam:AttachGroupPolicy", "iam:AttachRolePolicy">>,
         severity |-> "HIGH", title |-> "Policy Attachment Permissions"],
      INLINE_POLICY_MANIPULATION |->
        [patterns |-> <<"iam:PutUserPolicy", "iam:PutGroupPolicy", "iam:PutRolePolicy">>,
         severity |-> "HIGH", title |-> "Inline Policy Manipulation"],
      GROUP_MEMBERSHIP |->
        [pattern |-> "iam:AddUserToGroup", severity |-> "MEDIUM", title |-> "Group Membership Modification"],
      ASSUME_ROLE_POLICY_UPDATE |->
        [pattern |-> "iam:UpdateAssumeRolePolicy", severity |-> "HIGH",
         title |-> "Assume Role Policy Modification"],
      LAMBDA_PRIVILEGE_ESCALATION |->
        [patterns |-> <<"iam:PassRole", "lambda:CreateFunction", "lambda:InvokeFunction">>,
         severity |-> "HIGH", title |-> "Lambda Privilege Escalation"],
      LAMBDA_EVENT_SOURCE_MANIPULATION |->
        [patterns |-> <<"iam:PassRole", "lambda:CreateFunction", "lambda:CreateEventSourceMapping">>,
         severity |-> "HIGH", title |-> "Lambda Event Source Manipulation"],
      LAMBDA_CODE_UPDATE |->
        [pattern |-> "lambda:UpdateFunctionCode", severity |-> "MEDIUM", title |-> "Lambda Code Modification"],
      GLUE_PRIVILEGE_ESCALATION |->
        [patterns |-> <<"iam:PassRole", "glue:CreateDevEndpoint", "glue:GetDevEndpoint">>,
         severity |-> "HIGH", title |-> "Glue Privilege Escalation"],
      GLUE_ENDPOINT_MANIPULATION |->
        [patterns |-> <<"glue:UpdateDevEndpoint", "glue:GetDevEndpoint">>,
         severity |-> "MEDIUM", title |-> "Glue Endpoint Manipulation"],
      CLOUDFORMATION_PRIVILEGE_ESCALATION |->
        [patterns |-> <<"iam:PassRole", "cloudformation:CreateStack", "cloudformation:DescribeStacks">>,
         severity |-> "HIGH", title |-> "CloudFormation Privilege Escalation"],
      DATAPIPELINE_PRIVILEGE_ESCALATION |->
        [patterns |-> <<"iam:PassRole", "datapipeline:CreatePipeline",
                        "datapipeline:PutPipelineDefinition", "datapipeline:ActivatePipeline">>,
         severity |-> "HIGH", title |-> "Data Pipeline Privilege Escalation"] ]

(***************************************************************************)
(* Array and RegExp built-ins used by analyzePolicy.                       *)
(***************************************************************************)
\* Array.prototype.includes on an array of strings
Includes(arr, x) == \E i \in 1..Len(arr) : arr[i] = x

\* (a slip: the entries up to the first non-string only)
RECURSIVE FilterStringsUntil(_)
FilterStringsUntil(raw) ==
    IF raw = <<>> \/ ~IsString(Head(raw)) THEN <<>>
    ELSE <<Head(raw).s>> \o FilterStringsUntil(Tail(raw))

\* actionsRaw.filter(a => typeof a === 'string'), as the strings themselves
RECURSIVE FilterStrings(_)
FilterStrings(raw) ==
    IF raw = <<>> THEN <<>>
    ELSE IF IsString(Head(raw)) THEN <<Head(raw).s>> \o FilterStrings(Tail(raw))
    ELSE FilterStrings(Tail(raw))

\* RegExp.prototype.test on one of the two anchored patterns: a RegExp without the
\* g flag starts at 0 and leaves lastIndex alone; with it the match starts at
\* lastIndex, which is then set to the end of the match, or to 0 on failure.
RegExpTest(re, s, li) ==
    LET start == IF re.global THEN li ELSE 0
        matched == start = 0 /\ s = re.literal
    IN  [matched |-> matched,
         lastIndex |-> IF ~re.global THEN li ELSE IF matched THEN re.length ELSE 0]

\* (a slip: every for some)
EveryTest(re, actions, li) ==
    [matched |-> \A i \in 1..Len(actions) : actions[i] = re.literal, lastIndex |-> li]

\* actions.some(a => re.test(a)): stops at the first match
RECURSIVE SomeTest(_, _, _)
SomeTest(re, actions, li) ==
    IF actions = <<>> THEN [matched |-> FALSE, lastIndex |-> li]
    ELSE LET r == RegExpTest(re, Head(actions), li)
         IN  IF r.matched THEN r ELSE SomeTest(re, Tail(actions), r.lastIndex)

\* actions.some(action => patterns.includes(action))
SomeIncluded(actions, patterns) == \E i \in 1..Len(actions) : Includes(patterns, actions[i])

(***************************************************************************)
(* The rule branches of analyzePolicy's statement callback, one per rule   *)
(* as in the code, on the filtered action strings.                         *)
(***************************************************************************)
\* (a slip: r == '*' without the typeof test, under which the list ['*'] equals '*')
MatchWildcardResourceLoose(resources) ==
    \E i \in 1..Len(resources) :
        \/ resources[i] = Str("*")
        \/ IsArray(resources[i]) /\ resources[i].a = <<Str("*")>>
\* resources.some(r => typeof r === 'string' && r === '*')
MatchWildcardResource(resources) ==
    \E i \in 1..Len(resources) : IsString(resources[i]) /\ resources[i].s = "*"
MatchWildcardPermission(actions, li) ==
    SomeTest(DANGEROUS_PATTERNS.WILDCARD_PERMISSION.pattern, actions, li)
MatchWildcardIam(actions, li) ==
    SomeTest(DANGEROUS_PATTERNS.WILDCARD_IAM.pattern, actions, li)
MatchCreatePolicyVersion(actions) ==
    Includes(actions, DANGEROUS_PATTERNS.CREATE_POLICY_VERSION.pattern)
\* (a slip: both actions asked for, as in the co-occurrence rules)
MatchPolicyVersionManipulationBoth(actions) ==
    /\ Includes(actions, "iam:CreatePolicyVersion")
    /\ Includes(actions, "iam:SetDefaultPolicyVersion")
MatchPolicyVersionManipulation(actions) ==
    SomeIncluded(actions, DANGEROUS_PATTERNS.POLICY_VERSION_MANIPULATION.patterns)
\* (a slip: the wildcards that cover iam:PassRole taken for it)
MatchPassroleAnyExpanded(actions) ==
    \/ Includes(actions, DANGEROUS_PATTERNS.PASSROLE_ANY.pattern)
    \/ Includes(actions, "*") \/ Includes(actions, "iam:*") \/ Includes(actions, "iam:Pass*")
MatchPassroleAny(actions) ==
    Includes(actions, DANGEROUS_PATTERNS.PASSROLE_ANY.pattern)
\* (a slip: || for &&)
MatchPassroleEc2Either(actions) ==
    Includes(actions, "iam:PassRole") \/ Includes(actions, "ec2:RunInstances")
MatchPassroleEc2(actions) ==
    Includes(actions, "iam:PassRole") /\ Includes(actions, "ec2:RunInstances")
MatchAccessKeyCreation(actions) ==
    Includes(actions, "iam:CreateAccessKey")
MatchLoginProfileManipulation(actions) ==
    SomeIncluded(actions, DANGEROUS_PATTERNS.LOGIN_PROFILE_MANIPULATION.patterns)
MatchPolicyAttachment(actions) ==
    SomeIncluded(actions, DANGEROUS_PATTERNS.POLICY_ATTACHMENT.patterns)
MatchInlinePolicyManipulation(actions) ==
    SomeIncluded(actions, DANGEROUS_PATTERNS.INLINE_POLICY_MANIPULATION.patterns)
MatchGroupMembership(actions) ==
    Includes(actions, "iam:AddUserToGroup")
MatchAssumeRolePolicyUpdate(actions) ==
    Includes(actions, "iam:UpdateAssumeRolePolicy")
\* (a slip: || for &&)
MatchLambdaPrivilegeEscalationAny(actions) ==
    SomeIncluded(actions, DANGEROUS_PATTERNS.LAMBDA_PRIVILEGE_ESCALATION.patterns)

MatchLambdaPrivilegeEscalation(actions) ==
    /\ Includes(actions, "iam:PassRole")
    /\ Includes(actions, "lambda:CreateFunction")
    /\ Includes(actions, "lambda:InvokeFunction")
MatchLambdaEventSourceManipulation(actions) ==
    /\ Includes(actions, "iam:PassRole")
    /\ Includes(actions, "lambda:CreateFunction")
    /\ Includes(actions, "lambda:CreateEventSourceMapping")
MatchLambdaCodeUpdate(actions) ==
    Includes(actions, "lambda:UpdateFunctionCode")
MatchGluePrivilegeEscalation(actions) ==
    /\ Includes(actions, "iam:PassRole")
    /\ Includes(actions, "glue:CreateDevEndpoint")
    /\ Includes(actions, "glue:GetDevEndpoint")
MatchGlueEndpointManipulation(actions) ==
    Includes(actions, "glue:UpdateDevEndpoint") /\ Includes(actions, "glue:GetDevEndpoint")
MatchCloudformationPrivilegeEscalation(actions) ==
    /\ Includes(actions, "iam:PassRole")
    /\ Includes(actions, "cloudformation:CreateStack")
    /\ Includes(actions, "cloudformation:DescribeStacks")
MatchDatapipelinePrivilegeEscalation(actions) ==
    /\ Includes(actions, "iam:PassRole")
    /\ Includes(actions, "datapipeline:CreatePipeline")
    /\ Includes(actions, "datapipeline:PutPipelineDefinition")
    /\ Includes(actions, "datapipeline:ActivatePipeline")

\* (a slip: every flag reported as HIGH)
SecurityFlagHigh(id, entry, statementIndex) ==
    [id |-> id, severity |-> "HIGH", title |-> entry.title,
     affectedStatements |-> <<statementIndex>>]

\* (a slip: a one-based statement number)
SecurityFlagOneBased(id, entry, statementIndex) ==
    [id |-> id, severity |-> entry.severity, title |-> entry.title,
     affectedStatements |-> <<statementIndex + 1>>]

\* The SecurityFlag pushed by a branch (description and recommendation are fixed
\* texts of the catalog entry, like the title, and are left out)
SecurityFlag(id, entry, statementIndex) ==
    [id |-> id, severity |-> entry.severity, title |-> entry.title,
     affectedStatements |-> <<statementIndex>>]

\* if (cond) flags.push({...})
PushIf(cond, id, entry, statementIndex) ==
    IF cond THEN <<SecurityFlag(id, entry, statementIndex)>> ELSE <<>>

\* const actionsRaw = Array.isArray(statement.Action) ? statement.Action : [statement.Action]
\* const actions = actionsRaw.filter(a => typeof a === 'string')
NormalizeActions(statement) ==
    LET action == GetAction(statement)
    IN  FilterStrings(IF IsArray(action) THEN action.a ELSE <<action>>)

\* const resources = Array.isArray(resourceRaw) ? resourceRaw
\*                   : resourceRaw !== undefined ? [resourceRaw] : []
NormalizeResources(statement) ==
    LET resourceRaw == GetResource(statement)
    IN  IF IsArray(resourceRaw) THEN resourceRaw.a
        ELSE IF resourceRaw.t # "undefined" THEN <<resourceRaw>>
        ELSE <<>>

\* (a slip: skipping Deny statements only)
EffectNotDeny(statement) == ~StrictEquals(GetEffect(statement), Str("Deny"))

\* if (statement.Effect !== 'Allow') return;
EffectIsAllow(statement) == StrictEquals(GetEffect(statement), Str("Allow"))

\* The flags one Allow statement pushes, in the order of the branches of the
\* callback; perm and iam are the outcomes of the two RegExp tests.
BranchFlags(statementIndex, actions, resources, perm, iam) ==
    LET D == DANGEROUS_PATTERNS
        P(cond, id, entry) == PushIf(cond, id, entry, statementIndex)
    IN     P(MatchWildcardResource(resources), "wildcard-resource", D.WILDCARD_RESOURCE)
        \o P(perm.matched, "wildcard-permission", D.WILDCARD_PERMISSION)
        \o P(iam.matched, "wildcard-iam", D.WILDCARD_IAM)
        \o P(MatchCreatePolicyVersion(actions), "create-policy-version", D.CREATE_POLICY_VERSION)
        \o P(MatchPolicyVersionManipulation(actions), "policy-version-manipulation",
             D.POLICY_VERSION_MANIPULATION)
        \o P(MatchPassroleAny(actions), "passrole-any", D.PASSROLE_ANY)
        \o P(MatchPassroleEc2(actions), "passrole-ec2", D.PASSROLE_EC2)
        \o P(MatchAccessKeyCreation(actions), "access-key-creation", D.ACCESS_KEY_CREATION)
        \o P(MatchLoginProfileManipulation(actions), "login-profile-manipulation",
             D.LOGIN_PROFILE_MANIPULATION)
        \o P(MatchPolicyAttachment(actions), "policy-attachment", D.POLICY_ATTACHMENT)
        \o P(MatchInlinePolicyManipulation(actions), "inline-policy-manipulation",
             D.INLINE_POLICY_MANIPULATION)
        \o P(MatchGroupMembership(actions), "group-membership", D.GROUP_MEMBERSHIP)
        \o P(MatchAssumeRolePolicyUpdate(actions), "assume-role-policy-update",
             D.ASSUME_ROLE_POLICY_UPDATE)
        \o P(MatchLambdaPrivilegeEscalation(actions), "lambda-privilege-escalation",
             D.LAMBDA_PRIVILEGE_ESCALATION)
        \o P(MatchLambdaEventSourceManipulation(actions), "lambda-event-source-manipulation",
             D.LAMBDA_EVENT_SOURCE_MANIPULATION)
        \o P(MatchLambdaCodeUpdate(actions), "lambda-code-update", D.LAMBDA_CODE_UPDATE)
        \o P(MatchGluePrivilegeEscalation(actions), "glue-privilege-escalation",
             D.GLUE_PRIVILEGE_ESCALATION)
        \o P(MatchGlueEndpointManipulation(actions), "glue-endpoint-manipulation",
             D.GLUE_ENDPOINT_MANIPULATION)
        \o P(MatchCloudformationPrivilegeEscalation(actions),
             "cloudformation-privilege-escalation", D.CLOUDFORMATION_PRIVILEGE_ESCALATION)
        \o P(MatchDatapipelinePrivilegeEscalation(actions),
             "datapipeline-privilege-escalation", D.DATAPIPELINE_PRIVILEGE_ESCALATION)

\* (a slip: a rule already reported for the policy is not reported again)
PushFlagsOncePerRule(flags, statementIndex, actions, resources, perm, iam) ==
    [flags |-> flags \o SelectSeq(BranchFlags(statementIndex, actions, resources, perm, iam),
                                  LAMBDA f : \A k \in 1..Len(flags) : flags[k].id # f.id),
     lastIndex |-> [WILDCARD_PERMISSION |-> perm.lastIndex, WILDCARD_IAM |-> iam.lastIndex]]

\* (a slip: unshift for push)
PushFlagsFront(flags, statementIndex, actions, resources, perm, iam) ==
    [flags |-> BranchFlags(statementIndex, actions, resources, perm, iam) \o flags,
     lastIndex |-> [WILDCARD_PERMISSION |-> perm.lastIndex, WILDCARD_IAM |-> iam.lastIndex]]

\* flags.push(...) of one statement's flags onto those pushed so far, with the
\* lastIndex slots the two RegExp tests leave behind
PushFlags(flags, statementIndex, actions, resources, perm, iam) ==
    [flags |-> flags \o BranchFlags(statementIndex, actions, resources, perm, iam),
     lastIndex |-> [WILDCARD_PERMISSION |-> perm.lastIndex, WILDCARD_IAM |-> iam.lastIndex]]

\* The body of the callback for an Allow statement
StatementFlags(statement, statementIndex, flags, actions, li) ==
    PushFlags(flags, statementIndex, actions, NormalizeResources(statement),
              MatchWildcardPermission(actions, li.WILDCARD_PERMISSION),
              MatchWildcardIam(actions, li.WILDCARD_IAM))

(***************************************************************************)
(* analyzePolicy.                                                          *)
(***************************************************************************)
TypeError == [kind |-> "throw", error |-> "TypeError"]

\* (a slip: the latest version taken for the default one)
FindVersionLatest(versions, defaultId) ==
    IF versions = <<>> THEN [kind |-> "return", value |-> Undefined]
    ELSE IF \E i \in 1..Len(versions) : IsNullish(versions[i]) THEN TypeError
    ELSE [kind |-> "return", value |-> versions[Len(versions)]]

\* (a slip: falling back to the last version when none is the default)
FindVersionOrLast(versions, defaultId) ==
    LET hits == {i \in 1..Len(versions) : StrictEquals(GetVersionId(versions[i]), defaultId)}
    IN  IF \E i \in 1..Len(versions) : IsNullish(versions[i]) THEN TypeError
        ELSE IF hits # {}
             THEN [kind |-> "return", value |-> versions[CHOOSE i \in hits : \A j \in hits : i <= j]]
        ELSE IF versions = <<>> THEN [kind |-> "return", value |-> Undefined]
        ELSE [kind |-> "return", value |-> versions[Len(versions)]]

\* policy.PolicyVersionList.find(v => v.VersionId === policy.DefaultVersionId):
\* the first match, undefined when there is none; reading VersionId of a null or
\* undefined element throws.
RECURSIVE FindVersion(_, _)
FindVersion(versions, defaultId) ==
    IF versions = <<>> THEN [kind |-> "return", value |-> Undefined]
    ELSE IF IsNullish(Head(versions)) THEN TypeError
    ELSE IF StrictEquals(GetVersionId(Head(versions)), defaultId)
         THEN [kind |-> "return", value |-> Head(versions)]
    ELSE FindVersion(Tail(versions), defaultId)

\* (a slip: a Statement that is no array taken as no statements)
NormalizeStatementsArrayOnly(document) ==
    IF IsArray(GetStatement(document)) THEN GetStatement(document).a ELSE <<>>

\* Array.isArray(document.Statement) ? document.Statement
\*   : document.Statement ? [document.Statement] : []
NormalizeStatements(document) ==
    LET s == GetStatement(document)
    IN  IF IsArray(s) THEN s.a ELSE IF Truthy(s) THEN <<s>> ELSE <<>>

\* (a slip: an entry that is no object taken for a malformed statement and thrown on)
RECURSIVE ForEachStatementStrict(_, _, _)
ForEachStatementStrict(statements, i, acc) ==
    IF i > Len(statements) THEN [kind |-> "return", flags |-> acc.flags, lastIndex |-> acc.lastIndex]
    ELSE IF ~IsObject(statements[i]) THEN [kind |-> "throw", lastIndex |-> acc.lastIndex]
    ELSE IF ~EffectIsAllow(statements[i]) THEN ForEachStatementStrict(statements, i + 1, acc)
    ELSE ForEachStatementStrict(statements, i + 1,
            StatementFlags(statements[i], i - 1, acc.flags,
                           NormalizeActions(statements[i]), acc.lastIndex))

\* statements.forEach((statement, statementIndex) => {...}) from position i on
\* (statementIndex = i - 1), with acc the flags pushed so far and the RegExp state;
\* reading Effect of a null or undefined element throws and the flags are lost.
RECURSIVE ForEachStatement(_, _, _)
ForEachStatement(statements, i, acc) ==
    IF i > Len(statements) THEN [kind |-> "return", flags |-> acc.flags, lastIndex |-> acc.lastIndex]
    ELSE IF IsNullish(statements[i]) THEN [kind |-> "throw", lastIndex |-> acc.lastIndex]
    ELSE IF ~EffectIsAllow(statements[i]) THEN ForEachStatement(statements, i + 1, acc)
    ELSE ForEachStatement(statements, i + 1,
            StatementFlags(statements[i], i - 1, acc.flags,
                           NormalizeActions(statements[i]), acc.lastIndex))

\* (a slip: any flag makes the policy high-risk)
SomeFlag(flags) == flags # <<>>

\* flags.some(flag => flag.severity === 'HIGH')
SomeHigh(flags) == \E i \in 1..Len(flags) : flags[i].severity = "HIGH"

PolicyAnalysisResult(policy, flags, isHighRisk) ==
    [kind |-> "return", policyId |-> policy.PolicyId, policyName |-> policy.PolicyName,
     flags |-> flags, isHighRisk |-> isHighRisk]

\* return { policyId, policyName, flags, isHighRisk: flags.some(...) } after the loop
ReturnAnalysis(policy, loop) ==
    IF loop.kind = "throw"
    THEN [outcome |-> TypeError, lastIndex |-> loop.lastIndex]
    ELSE [outcome |-> PolicyAnalysisResult(policy, loop.flags, SomeHigh(loop.flags)),
          lastIndex |-> loop.lastIndex]

\* analyzePolicy from the outcome of the find on
AnalyzeDefaultVersion(policy, found, li) ==
    IF found.kind = "throw" THEN [outcome |-> TypeError, lastIndex |-> li]
    ELSE IF ~Truthy(found.value) \/ ~Truthy(GetDocument(found.value))
    THEN [outcome |-> PolicyAnalysisResult(policy, <<>>, FALSE), lastIndex |-> li]
    ELSE ReturnAnalysis(policy,
            ForEachStatement(NormalizeStatements(GetDocument(found.value)), 1,
                             [flags |-> <<>>, lastIndex |-> li]))

\* analyzePolicy(policy) run with the RegExp state li: its outcome (a
\* PolicyAnalysisResult or a thrown TypeError) and the RegExp state it leaves.
\* find is called on PolicyVersionList as it is: anything but an array throws.
analyzePolicy(policy, li) ==
    IF ~IsArray(policy.PolicyVersionList) THEN [outcome |-> TypeError, lastIndex |-> li]
    ELSE AnalyzeDefaultVersion(policy,
            FindVersion(policy.PolicyVersionList.a, policy.DefaultVersionId), li)

(***************************************************************************)
(* analyzeAllPolicies, getHighRiskPolicies, getSecuritySummary.            *)
(***************************************************************************)
\* Keys of the policies record: Object.values lists the values of integer-index
\* keys first, in ascending numeric order, then those of the other keys in
\* insertion order.
IndexKey(n) == [isIndex |-> TRUE, n |-> n, s |-> ""]
StringKey(s) == [isIndex |-> FALSE, n |-> 0, s |-> s]

RECURSIVE IndexValues(_, _)
IndexValues(entries, left) ==
    IF left = {} THEN <<>>
    ELSE LET m == CHOOSE i \in left : \A j \in left : entries[i].key.n <= entries[j].key.n
         IN  <<entries[m].value>> \o IndexValues(entries, left \ {m})

RECURSIVE StringValues(_)
StringValues(entries) ==
    IF entries = <<>> THEN <<>>
    ELSE IF Head(entries).key.isIndex THEN StringValues(Tail(entries))
    ELSE <<Head(entries).value>> \o StringValues(Tail(entries))

ObjectValues(entries) ==
    IndexValues(entries, {i \in 1..Len(entries) : entries[i].key.isIndex})
        \o StringValues(entries)

\* values.map(policy => analyzePolicy(policy)): a throwing call ends the map
RECURSIVE MapAnalyzePolicy(_, _, _)
RECURSIVE MapStep(_, _, _)
MapStep(values, done, r) ==
    IF r.outcome.kind = "throw" THEN [outcome |-> TypeError, lastIndex |-> r.lastIndex]
    ELSE MapAnalyzePolicy(Tail(values), Append(done, r.outcome), r.lastIndex)
MapAnalyzePolicy(values, done, li) ==
    IF values = <<>> THEN [outcome |-> [kind |-> "return", value |-> done], lastIndex |-> li]
    ELSE MapStep(values, done, analyzePolicy(Head(values), li))

analyzeAllPolicies(entries, li) == MapAnalyzePolicy(ObjectValues(entries), <<>>, li)

\* (a slip: keeping every result that has a flag)
FilterFlagged(rs) == SelectSeq(rs, LAMBDA r : r.flags # <<>>)

\* analysisResults.filter(result => result.isHighRisk)
RECURSIVE FilterHighRisk(_)
FilterHighRisk(rs) ==
    IF rs = <<>> THEN <<>>
    ELSE IF Head(rs).isHighRisk THEN <<Head(rs)>> \o FilterHighRisk(Tail(rs))
    ELSE FilterHighRisk(Tail(rs))

HighRiskOf(all) ==
    IF all.outcome.kind = "throw" THEN all
    ELSE [outcome |-> [kind |-> "return", value |-> FilterHighRisk(all.outcome.value)],
          lastIndex |-> all.lastIndex]

getHighRiskPolicies(entries, li) == HighRiskOf(analyzeAllPolicies(entries, li))

\* (a slip: the severity test left out of the filter)
CountHighAny(flags) == Len(flags)

\* r.flags.filter(f => f.severity === 'HIGH').length
RECURSIVE CountHigh(_)
CountHigh(flags) ==
    IF flags = <<>> THEN 0
    ELSE (IF Head(flags).severity = "HIGH" THEN 1 ELSE 0) + CountHigh(Tail(flags))

\* analysisResults.reduce((sum, r) => sum + r.flags.length, 0)
RECURSIVE SumFlags(_)
SumFlags(rs) == IF rs = <<>> THEN 0 ELSE Len(Head(rs).flags) + SumFlags(Tail(rs))

\* analysisResults.reduce((sum, r) => sum + r.flags.filter(HIGH).length, 0)
RECURSIVE SumHighFlags(_)
SumHighFlags(rs) == IF rs = <<>> THEN 0 ELSE CountHigh(Head(rs).flags) + SumHighFlags(Tail(rs))

SummaryOf(all) ==
    IF all.outcome.kind = "throw" THEN all
    ELSE [outcome |->
             [kind |-> "return",
              totalPolicies |-> Len(all.outcome.value),
              highRiskPolicies |-> Len(FilterHighRisk(all.outcome.value)),
              totalSecurityFlags |-> SumFlags(all.outcome.value),
              highSeverityFlags |-> SumHighFlags(all.outcome.value)],
          lastIndex |-> all.lastIndex]

getSecuritySummary(entries, li) == SummaryOf(analyzeAllPolicies(entries, li))

(***************************************************************************)
(* The SecurityReport component (components/security-report.tsx): the      *)
(* counts it derives from the analysisResults it is given.                 *)
(***************************************************************************)
\* (a slip: the flags at or above the severity counted)
CountSeverityOrAbove(flags, severity) ==
    Cardinality({k \in 1..Len(flags) :
                    \/ flags[k].severity = severity
                    \/ flags[k].severity = "HIGH" /\ severity = "MEDIUM"
                    \/ flags[k].severity # "LOW" /\ severity = "LOW"})

\* p.flags.filter(f => f.severity === severity).length
CountSeverity(flags, severity) ==
    Len(SelectSeq(flags, LAMBDA f : f.severity = severity))

\* analysisResults.reduce((sum, p) => sum + p.flags.filter(...).length, 0)
RECURSIVE SumSeverity(_, _)
SumSeverity(rs, severity) ==
    IF rs = <<>> THEN 0
    ELSE CountSeverity(Head(rs).flags, severity) + SumSeverity(Tail(rs), severity)

\* analysisResults.reduce((sum, p) => sum + p.flags.length, 0)
RECURSIVE TotalFlags(_)
TotalFlags(rs) == IF rs = <<>> THEN 0 ELSE Len(Head(rs).flags) + TotalFlags(Tail(rs))

SecurityReport(analysisResults) ==
    [kind |-> "return",
     highRiskPolicies |-> SelectSeq(analysisResults, LAMBDA p : p.isHighRisk),
     totalFlags |-> TotalFlags(analysisResults),
     highSeverityFlags |-> SumSeverity(analysisResults, "HIGH"),
     mediumSeverityFlags |-> SumSeverity(analysisResults, "MEDIUM"),
     lowSeverityFlags |-> SumSeverity(analysisResults, "LOW")]

(***************************************************************************)
(* The inputs: policy records of the IAM export, bounded.                  *)
(***************************************************************************)
RECURSIVE Pick(_, _, _)
Pick(q, S, i) ==
    IF i > Len(q) THEN <<>>
    ELSE (IF i \in S THEN <<q[i]>> ELSE <<>>) \o Pick(q, S, i + 1)
SubSeqsOf(q) == {Pick(q, S, 1) : S \in SUBSET (1..Len(q))}
Strs(q) == [i \in 1..Len(q) |-> Str(q[i])]
SeqsUpTo(S, n) == UNION {[1..k -> S] : k \in 0..n}

\* The action lists the catalog's rules name
PatternLists ==
    LET D == DANGEROUS_PATTERNS
    IN  { <<D.WILDCARD_PERMISSION.pattern.literal>>, <<D.WILDCARD_IAM.pattern.literal>>,
          <<D.CREATE_POLICY_VERSION.pattern>>, D.POLICY_VERSION_MANIPULATION.patterns,
          <<D.PASSROLE_ANY.pattern>>, D.PASSROLE_EC2.patterns,
          <<D.ACCESS_KEY_CREATION.pattern>>, D.LOGIN_PROFILE_MANIPULATION.patterns,
          D.POLICY_ATTACHMENT.patterns, D.INLINE_POLICY_MANIPULATION.patterns,
          <<D.GROUP_MEMBERSHIP.pattern>>, <<D.ASSUME_ROLE_POLICY_UPDATE.pattern>>,
          D.LAMBDA_PRIVILEGE_ESCALATION.patterns, D.LAMBDA_EVENT_SOURCE_MANIPULATION.patterns,
          <<D.LAMBDA_CODE_UPDATE.pattern>>, D.GLUE_PRIVILEGE_ESCALATION.patterns,
          D.GLUE_ENDPOINT_MANIPULATION.patterns, D.CLOUDFORMATION_PRIVILEGE_ESCALATION.patterns,
          D.DATAPIPELINE_PRIVILEGE_ESCALATION.patterns }

\* Actions outside the catalog, and near misses of its literals
OtherActions == {"s3:GetObject", "s3:*", "iam:Pass*", "IAM:PassRole"}

ActionVocabulary == UNION {{l[i] : i \in 1..Len(l)} : l \in PatternLists} \cup OtherActions

\* Every selection of the actions of one rule, in the rule's order
BaseActionLists == UNION {SubSeqsOf(l) : l \in PatternLists} \cup {<<a>> : a \in OtherActions}

\* Entries added after them: strings that complete or cross rules, and non-strings
ExtraEntries == {Str("iam:PassRole"), Str("glue:GetDevEndpoint"), Str("*"), Num(5)}
ExtraLists == SeqsUpTo(ExtraEntries, MaxExtra)

ArnResource == Str("arn:aws:s3:::my-bucket/*")
ResourceValues ==
    {Undefined, Str("*"), ArnResource, Arr(<<ArnResource, Str("*")>>), Arr(<<Num(5), Null>>),
     Arr(<<Arr(<<Str("*")>>)>>)}

\* Allow statements with one rule's actions alone, under every Resource shape;
\* the same under the other Effects; one action as a bare string; no action
EffectValues == {Str("Allow"), Str("Deny"), Str("allow"), Undefined}
PlainStatements ==
    {Statement(Str("Allow"), Arr(Strs(b)), r) : b \in BaseActionLists, r \in ResourceValues}
    \cup {Statement(e, Arr(Strs(b)), Str("*")) : e \in EffectValues, b \in BaseActionLists}
    \cup {Statement(e, Str(a), r) : e \in {Str("Allow"), Str("Deny")}, a \in ActionVocabulary,
                                    r \in {Undefined, Str("*")}}
    \cup {Statement(Str("Allow"), a, r) : a \in {Undefined, Null, Num(5)}, r \in ResourceValues}

\* Allow statements with extra entries after one rule's actions
MixedStatements ==
    {Statement(Str("Allow"), Arr(Strs(b) \o x), Undefined) :
        b \in BaseActionLists, x \in ExtraLists \ {<<>>}}

\* Allow statements whose Action holds null, numbers, booleans, objects or nested
\* lists, before or without string entries
NonStringActions ==
    { Arr(<<Null, Str("iam:PassRole")>>),
      Arr(<<Arr(<<Str("*")>>), Str("iam:CreateAccessKey")>>),
      Arr(<<Statement(Str("Allow"), Str("iam:*"), Undefined), Str("iam:AddUserToGroup")>>),
      Arr(<<Num(5), Bool(TRUE), Null>>),
      Arr(<<Arr(<<Str("iam:*")>>)>>),
      Statement(Str("Allow"), Str("*"), Str("*")),
      Bool(TRUE) }
NonStringStatements ==
    {Statement(Str("Allow"), a, r) : a \in NonStringActions, r \in {Undefined, Str("*")}}

\* A small pool of statement entries for documents of several statements
PoolStatements ==
    { Statement(Str("Deny"), Str("*"), Str("*")),
      Statement(Str("Allow"), Str("iam:CreateAccessKey"), Undefined),
      Statement(Str("Allow"), Arr(<<Str("iam:PassRole")>>), Str("*")),
      Statement(Str("Allow"), Arr(<<Str("ec2:RunInstances")>>), Undefined),
      Statement(Str("Allow"), Str("iam:AddUserToGroup"), ArnResource),
      Statement(Str("Allow"), Str("iam:*"), Undefined),
      Null,
      Num(5) }

\* Statement fields: a sequence, a bare object, absent, or another JSON value
StatementFields ==
    {Arr(q) : q \in SeqsUpTo(PoolStatements, MaxStatements)}
    \cup {s \in PoolStatements : IsObject(s)}
    \cup {Undefined, Null, Str("Allow"), Str(""), Num(0), Num(5), Bool(TRUE), Bool(FALSE)}

\* A version granting everything, to stand beside the default version
AdminDocument == Document(Arr(<<Statement(Str("Allow"), Str("*"), Str("*"))>>))

\* Version lists around a default document d
VersionLists(d) ==
    { [list |-> Arr(<<Version(Str("v1"), d)>>), default |-> Str("v1")],
      [list |-> Arr(<<Version(Str("v1"), d)>>), default |-> Str("v2")],
      [list |-> Arr(<<Version(Str("v1"), AdminDocument), Version(Str("v2"), d)>>),
       default |-> Str("v2")] }

\* Version lists that are missing, not lists, or hold entries that are no versions,
\* and default versions without a document
OddVersionLists ==
    { [list |-> Undefined, default |-> Str("v1")],
      [list |-> Null, default |-> Str("v1")],
      [list |-> Str("v1"), default |-> Str("v1")],
      [list |-> Arr(<<>>), default |-> Str("v1")],
      [list |-> Arr(<<Null, Version(Str("v1"), AdminDocument)>>), default |-> Str("v1")],
      [list |-> Arr(<<Num(5), Version(Str("v1"), AdminDocument)>>), default |-> Str("v1")],
      [list |-> Arr(<<Num(5), Version(Str("v1"), AdminDocument)>>), default |-> Undefined],
      [list |-> Arr(<<Version(Str("v1"), AdminDocument)>>), default |-> Undefined],
      [list |-> Arr(<<Version(Str("v1"), Undefined), Version(Str("v2"), AdminDocument)>>),
       default |-> Str("v1")],
      [list |-> Arr(<<Version(Str("v1"), Null), Version(Str("v1"), AdminDocument)>>),
       default |-> Str("v1")],
      [list |-> Arr(<<Version(Str("v1"), Str("{}"))>>), default |-> Str("v1")] }

PolicyOf(id, vl) == Policy(id, "policy-" \o id, vl.default, vl.list)

OneStatementPolicies ==
    {PolicyOf("ANPA1", [list |-> Arr(<<Version(Str("v1"), Document(Arr(<<s>>)))>>),
                        default |-> Str("v1")]) :
        s \in PlainStatements \cup MixedStatements \cup NonStringStatements}

DocumentPolicies ==
    UNION {{PolicyOf("ANPA2", vl) : vl \in VersionLists(Document(f))} : f \in StatementFields}
    \cup {PolicyOf("ANPA3", vl) : vl \in OddVersionLists}

\* Policies for collections of several: one with two HIGH findings, one with a
\* MEDIUM finding only, one without findings, one whose analysis throws
SimplePolicy(id, statements) ==
    PolicyOf(id, [list |-> Arr(<<Version(Str("v1"), Document(Arr(statements)))>>),
                  default |-> Str("v1")])
CollectionPolicies ==
    { SimplePolicy("ANPAH", <<Statement(Str("Allow"), Str("iam:PassRole"), Str("*"))>>),
      SimplePolicy("ANPAM", <<Statement(Str("Allow"), Str("iam:AddUserToGroup"), Undefined)>>),
      SimplePolicy("ANPAN", <<Statement(Str("Allow"), Str("s3:GetObject"), ArnResource)>>),
      SimplePolicy("ANPAT", <<Null>>) }

\* Keys of a collection of k entries: all strings, or a string followed by integer
\* indices inserted in descending order
KeyNames == <<"ANPAA", "ANPAB", "ANPAC", "ANPAD", "ANPAE", "ANPAF">>
KeyLists(k) ==
    { [j \in 1..k |-> StringKey(KeyNames[j])],
      [j \in 1..k |-> IF j = 1 THEN StringKey(KeyNames[j]) ELSE IndexKey(k + 1 - j)] }

Entry(key, value) == [key |-> key, value |-> value]

Collections ==
    {<<Entry(StringKey(p.PolicyId), p)>> : p \in OneStatementPolicies \cup DocumentPolicies}
    \cup UNION { { [j \in 1..k |-> Entry(keys[j], ps[j])] :
                     keys \in KeyLists(k),
                     ps \in {f \in [1..k -> CollectionPolicies] :
                                \A i, j \in 1..k : f[i] = f[j] => i = j} } :
                 k \in 0..MaxPolicies }

(***************************************************************************)
(* The state machine: a loaded collection and the calls made on it.        *)
(***************************************************************************)
NoCall == [op |-> "none", arg |-> 0]
NoPage == [kind |-> "none"]

\* let LLM_DISABLED_RUNTIME: boolean | null = null, and no call made yet
ApiIdle ==
    /\ LLM_DISABLED_RUNTIME = Null
    /\ calls = <<>>
    /\ network = <<>>

Init ==
    /\ policies \in Collections
    /\ lastIndex = [WILDCARD_PERMISSION |-> 0, WILDCARD_IAM |-> 0]
    /\ history = NoCall
    /\ ret = NoCall
    /\ page = NoPage
    /\ ApiIdle

\* The call made, recorded with its outcome; r is what the function gave
Returned(op, arg, r) == [op |-> op, arg |-> arg, outcome |-> r.outcome]

\* history keeps the first analyzePolicy call; repeated is set once the same entry
\* is analyzed again after some other call was made in between
Remember(op, arg, r) ==
    IF op # "analyzePolicy" THEN history
    ELSE IF history = NoCall THEN [first |-> Returned(op, arg, r), repeated |-> FALSE]
    ELSE IF arg = history.first.arg /\ ~(ret.op = "analyzePolicy" /\ ret.arg = arg)
         THEN [history EXCEPT !.repeated = TRUE]
    ELSE history

Call(op, arg, r) ==
    /\ ret' = Returned(op, arg, r)
    /\ history' = Remember(op, arg, r)
    /\ lastIndex' = r.lastIndex
    /\ UNCHANGED <<policies, page, LLM_DISABLED_RUNTIME, calls, network>>

\* analyzePolicy(policies[key]) on the i-th entry
AnalyzePolicy(i) == Call("analyzePolicy", i, analyzePolicy(policies[i].value, lastIndex))

AnalyzeAllPolicies == Call("analyzeAllPolicies", 0, analyzeAllPolicies(policies, lastIndex))

GetHighRiskPolicies == Call("getHighRiskPolicies", 0, getHighRiskPolicies(policies, lastIndex))

GetSecuritySummary == Call("getSecuritySummary", 0, getSecuritySummary(policies, lastIndex))

\* SecurityReport rendered with the results analyzeAllPolicies returned
RenderOn(all) ==
    /\ all.outcome.kind = "return"
    /\ Call("SecurityReport", 0,
            [outcome |-> SecurityReport(all.outcome.value), lastIndex |-> all.lastIndex])

RenderSecurityReport == RenderOn(analyzeAllPolicies(policies, lastIndex))

Next ==
    \/ \E i \in 1..Len(policies) : AnalyzePolicy(i)
    \/ AnalyzeAllPolicies
    \/ GetHighRiskPolicies
    \/ GetSecuritySummary
    \/ RenderSecurityReport

Spec == Init /\ [][Next]_vars

(***************************************************************************)
(* The load effects of the policy page (loadPolicyData) and of the         *)
(* dashboard page (loadCurrentUpload).  A step is what runs between two    *)
(* awaits: the fetch resolves with some result and the code goes on to the *)
(* next await, to a redirect or to the end of the part modelled here.      *)
(* policies is the policies record of the dataset the server holds.        *)
(***************************************************************************)
\* What getCurrentUploadId resolves to: { error } or { uploadId }
CurrentUploadIdResults ==
    { [error |-> Str("HTTP 500: Internal Server Error"), uploadId |-> Undefined],
      [error |-> Undefined, uploadId |-> Undefined],
      [error |-> Undefined, uploadId |-> Null],
      [error |-> Undefined, uploadId |-> Str("")],
      [error |-> Undefined, uploadId |-> Str("upload-1")] }

\* What getUpload resolves to: { error } or { data }, data being the dataset or null
ProcessedIAMData == [t |-> "object"]
UploadResults ==
    { [error |-> Str("HTTP 404: Not Found"), data |-> Undefined],
      [error |-> Undefined, data |-> Null],
      [error |-> Undefined, data |-> ProcessedIAMData] }

\* (a slip: the error tested, the missing uploadId not)
CurrentUploadIdErrorOnly(currentResult) == Truthy(currentResult.error)

\* if (currentResult.error || !currentResult.uploadId)
CurrentUploadIdFailed(currentResult) ==
    Truthy(currentResult.error) \/ ~Truthy(currentResult.uploadId)

\* if (uploadResult.error || !uploadResult.data)
UploadFailed(uploadResult) == Truthy(uploadResult.error) \/ ~Truthy(uploadResult.data)

\* uploadResult.data.policies[policyId]
LookupPolicy(entries, policyId) ==
    IF \E i \in 1..Len(entries) : entries[i].key = policyId
    THEN LET i == CHOOSE j \in 1..Len(entries) : entries[j].key = policyId
         IN  [found |-> TRUE, index |-> i, value |-> entries[i].value]
    ELSE [found |-> FALSE, index |-> 0, value |-> Undefined]

\* policyData.PolicyVersionList?.find(...): undefined for a missing list, a
\* TypeError for a list without a find method or with a null entry
OptionalFindThrows(policy) ==
    /\ ~IsNullish(policy.PolicyVersionList)
    /\ \/ ~IsArray(policy.PolicyVersionList)
       \/ FindVersion(policy.PolicyVersionList.a, policy.DefaultVersionId).kind = "throw"

\* A fetch that has not resolved yet
PendingResult == [pending |-> TRUE]

\* useState initial values, and the state after a setter ran
NotSet == [set |-> FALSE]
SetTo(v) == [set |-> TRUE, value |-> v]

\* The three generative features of the policy page, in the order loadPolicyData
\* looks for their stored results
LlmKinds == {"explanation", "recommended-policy", "attack-path"}
StoredOrder == <<"recommended-policy", "attack-path", "explanation">>

\* Handler invocations followed in one run of the page
MaxClicks == 2

InitialPage(kind, policyId) ==
    [kind |-> kind, policyId |-> policyId, pc |-> "getCurrentUploadId",
     currentResult |-> PendingResult, uploadResult |-> PendingResult,
     data |-> NotSet, securityAnalysis |-> NotSet, securitySummary |-> NotSet,
     redirect |-> "", invoked |-> <<>>,
     content |-> {}, phase |-> [k \in LlmKinds |-> "idle"],
     tried |-> 0, llmInput |-> NotSet, clicks |-> 0]

\* router.push(path), after which nothing more of the effect runs
Redirect(pg, path) == [pg EXCEPT !.pc = "redirected", !.redirect = path]

\* await apiService.getCurrentUploadId() and the test that follows it
AfterCurrentUploadId(pg, currentResult) ==
    IF CurrentUploadIdFailed(currentResult)
    THEN Redirect([pg EXCEPT !.currentResult = currentResult], "/")
    ELSE [pg EXCEPT !.currentResult = currentResult, !.pc = "getUpload"]

\* loadPolicyData from setData on: the default document is looked up, the attached
\* entities are found, the policy is analyzed and the analysis is set; an
\* exception anywhere goes to the catch block, which redirects to "/"
PolicyPageAnalysis(pg, index, attachedThrows, r) ==
    IF attachedThrows \/ OptionalFindThrows(policies[index].value)
    THEN [page |-> Redirect(pg, "/"), lastIndex |-> lastIndex]
    ELSE IF r.outcome.kind = "throw"
    THEN [page |-> Redirect([pg EXCEPT !.invoked = <<"analyzePolicy">>], "/"),
          lastIndex |-> r.lastIndex]
    ELSE [page |-> [pg EXCEPT !.invoked = <<"analyzePolicy">>,
                              !.securityAnalysis = SetTo(r.outcome),
                              !.pc = "loaded"],
          lastIndex |-> r.lastIndex]

\* loadPolicyData after await apiService.getUpload(...)
PolicyPageAfterUpload(pg, uploadResult, found, attachedThrows) ==
    IF UploadFailed(uploadResult)
    THEN [page |-> Redirect(pg, "/"), lastIndex |-> lastIndex]
    ELSE IF ~found.found
    THEN [page |-> Redirect(pg, "/dashboard"), lastIndex |-> lastIndex]
    ELSE PolicyPageAnalysis([pg EXCEPT !.data = SetTo(uploadResult.data)], found.index,
                            attachedThrows, analyzePolicy(found.value, lastIndex))

\* loadCurrentUpload from setData on: analyzeAllPolicies, then getSecuritySummary,
\* then the two setters; an exception goes to the catch block
DashboardAnalysis(pg, all, summary) ==
    IF all.outcome.kind = "throw"
    THEN [page |-> Redirect([pg EXCEPT !.invoked = <<"analyzeAllPolicies">>], "/"),
          lastIndex |-> all.lastIndex]
    ELSE IF summary.outcome.kind = "throw"
    THEN [page |-> Redirect([pg EXCEPT !.invoked = <<"analyzeAllPolicies", "getSecuritySummary">>],
                            "/"),
          lastIndex |-> summary.lastIndex]
    ELSE [page |-> [pg EXCEPT !.invoked = <<"analyzeAllPolicies", "getSecuritySummary">>,
                              !.securityAnalysis = SetTo(all.outcome.value),
                              !.securitySummary = SetTo(summary.outcome),
                              !.pc = "loaded"],
          lastIndex |-> summary.lastIndex]

\* loadCurrentUpload after await apiService.getUpload(...)
DashboardAfterUpload(pg, uploadResult, all) ==
    IF UploadFailed(uploadResult)
    THEN [page |-> Redirect(pg, "/"), lastIndex |-> lastIndex]
    ELSE DashboardAnalysis([pg EXCEPT !.data = SetTo(uploadResult.data)], all,
                           getSecuritySummary(policies, all.lastIndex))

\* loadPolicyData's three try blocks after the analysis (n = 1, 2, 3): the runtime
\* config is fetched and, unless it says the LLM is disabled, the stored result,
\* which is set when there is one
AfterStored(pg, n, found) ==
    [pg EXCEPT !.pc = IF n = 3 THEN "done" ELSE "loaded",
               !.tried = n,
               !.content = IF found THEN pg.content \cup {StoredOrder[n]} ELSE pg.content]

\* const defaultVersion = policy.PolicyVersionList?.find(...);
\* const statements = Array.isArray(defaultVersion?.Document?.Statement)
\*                      ? defaultVersion.Document.Statement : []
HandlerStatements(policy) ==
    LET found == FindVersion(policy.PolicyVersionList.a, policy.DefaultVersionId).value
    IN  IF IsNullish(found) \/ IsNullish(GetDocument(found)) THEN <<>>
        ELSE IF IsArray(GetStatement(GetDocument(found)))
             THEN GetStatement(GetDocument(found)).a
        ELSE <<>>

\* The ApiService method a handler calls: regenerate when the page holds a result
LlmMethod(kind, hasContent) ==
    CASE kind = "explanation" ->
            IF hasContent THEN "regenerateLLMRecommendation" ELSE "getLLMRecommendations"
      [] kind = "recommended-policy" ->
            IF hasContent THEN "regenerateRecommendedPolicy" ELSE "generateRecommendedPolicy"
      [] kind = "attack-path" ->
            IF hasContent THEN "regenerateAttackPath" ELSE "generateAttackPath"

\* The input a handler hands to the method
LlmInput(method, policy, statements, analysis) ==
    [method |-> method, policyName |-> policy.PolicyName, policyId |-> policy.PolicyId,
     statements |-> statements, detectedFlags |-> analysis.flags]

\* handleGenerateExplanation, handleGenerateRecommendedPolicy and
\* handleGenerateAttackPath up to their await
AfterClick(pg, kind, policy, statements) ==
    [pg EXCEPT !.phase[kind] = "awaiting",
               !.clicks = pg.clicks + 1,
               !.llmInput = SetTo(LlmInput(LlmMethod(kind, kind \in pg.content), policy,
                                           statements, pg.securityAnalysis.value))]

\* What the methods resolve to: { error }, { data } or neither
LlmResponses == {"error", "data", "empty"}

\* The handlers after their await: the result is set when there is one (an error
\* is only displayed); a generated explanation is then persisted before the
\* loading flag is cleared
AfterResponse(pg, kind, resp) ==
    [pg EXCEPT !.content = IF resp = "data" THEN pg.content \cup {kind} ELSE pg.content,
               !.phase[kind] =
                   IF /\ resp = "data"
                      /\ pg.llmInput.value.method = "getLLMRecommendations"
                      /\ kind = "explanation"
                   THEN "persisting" ELSE "idle"]

\* Policies whose default document holds one bare statement object
BareStatementPolicies ==
    {PolicyOf("ANPA2", vl) :
        vl \in UNION {VersionLists(Document(f)) : f \in {s \in PoolStatements : IsObject(s)}}}

\* The datasets the pages are loaded on
PageCollections ==
    {c \in Collections : Len(c) # 1}
    \cup {<<Entry(StringKey(p.PolicyId), p)>> :
             p \in {PolicyOf("ANPA3", vl) : vl \in OddVersionLists} \cup BareStatementPolicies}

\* The policyId of the route: a key of the dataset or a key it does not have
RouteKeys(entries) == {entries[i].key : i \in 1..Len(entries)} \cup {StringKey("ANPAZ")}

PageInit ==
    /\ policies \in PageCollections
    /\ lastIndex = [WILDCARD_PERMISSION |-> 0, WILDCARD_IAM |-> 0]
    /\ history = NoCall
    /\ ret = NoCall
    /\ \/ \E policyId \in RouteKeys(policies) : page = InitialPage("policy", policyId)
       \/ page = InitialPage("dashboard", StringKey(""))
    /\ ApiIdle

Step(next) ==
    /\ page' = next.page
    /\ lastIndex' = next.lastIndex
    /\ UNCHANGED <<policies, history, ret, LLM_DISABLED_RUNTIME, calls, network>>

PolicyPageCurrentUploadId ==
    /\ page.kind = "policy" /\ page.pc = "getCurrentUploadId"
    /\ \E currentResult \in CurrentUploadIdResults :
          Step([page |-> AfterCurrentUploadId(page, currentResult), lastIndex |-> lastIndex])

PolicyPageUpload ==
    /\ page.kind = "policy" /\ page.pc = "getUpload"
    /\ \E uploadResult \in UploadResults, attachedThrows \in BOOLEAN :
          Step(PolicyPageAfterUpload([page EXCEPT !.uploadResult = uploadResult], uploadResult,
                                     LookupPolicy(policies, page.policyId), attachedThrows))

DashboardCurrentUploadId ==
    /\ page.kind = "dashboard" /\ page.pc = "getCurrentUploadId"
    /\ \E currentResult \in CurrentUploadIdResults :
          Step([page |-> AfterCurrentUploadId(page, currentResult), lastIndex |-> lastIndex])

DashboardUpload ==
    /\ page.kind = "dashboard" /\ page.pc = "getUpload"
    /\ \E uploadResult \in UploadResults :
          Step(DashboardAfterUpload([page EXCEPT !.uploadResult = uploadResult], uploadResult,
                                    analyzeAllPolicies(policies, lastIndex)))

PolicyPageStored ==
    /\ page.kind = "policy" /\ page.pc = "loaded"
    /\ \E found \in BOOLEAN :
          Step([page |-> AfterStored(page, page.tried + 1, found), lastIndex |-> lastIndex])

HandleGenerate(kind) ==
    /\ page.kind = "policy" /\ page.securityAnalysis.set
    /\ page.phase[kind] = "idle"
    /\ page.clicks < MaxClicks
    /\ Step([page |-> AfterClick(page, kind, LookupPolicy(policies, page.policyId).value,
                                 HandlerStatements(LookupPolicy(policies, page.policyId).value)),
             lastIndex |-> lastIndex])

HandleResponse(kind) ==
    /\ page.kind = "policy" /\ page.phase[kind] = "awaiting"
    /\ \E resp \in LlmResponses :
          Step([page |-> AfterResponse(page, kind, resp), lastIndex |-> lastIndex])

\* handleGenerateExplanation from getCurrentUploadId to the finally block
ExplanationPersisted ==
    /\ page.kind = "policy" /\ page.phase["explanation"] = "persisting"
    /\ Step([page |-> [page EXCEPT !.phase["explanation"] = "idle"], lastIndex |-> lastIndex])

PageNext ==
    \/ PolicyPageCurrentUploadId
    \/ PolicyPageUpload
    \/ DashboardCurrentUploadId
    \/ DashboardUpload
    \/ PolicyPageStored
    \/ \E kind \in LlmKinds : HandleGenerate(kind)
    \/ \E kind \in LlmKinds : HandleResponse(kind)
    \/ ExplanationPersisted

PageSpec == PageInit /\ [][PageNext]_vars

(***************************************************************************)
(* ApiService (api.ts:11-373): request, the upload wrappers built on it    *)
(* and the LLM methods gated by LLM_DISABLED_RUNTIME.  A call is at an     *)
(* await ("config": the reply of /api/config, "request": the reply of its  *)
(* own request) or is done; calls made while others wait overlap.          *)
(***************************************************************************)
\* Calls followed in one session
MaxCalls == 2

\* What fetch settles to: a rejection with the value thrown, or a response with
\* ok, status, statusText and a body that response.json() parses or fails on
ErrorObject(message) == [t |-> "error", message |-> message]
Rejected(error) == [kind |-> "rejected", error |-> error]
Unparsable == [t |-> "unparsable"]
Response(ok, status, statusText, body) ==
    [kind |-> "response", ok |-> ok, status |-> status, statusText |-> statusText, body |-> body]

\* Error bodies: FastAPI's { detail }, a string for an HTTPException and a list of
\* objects for a validation error; a body without detail; null; no JSON at all
ErrorBodies ==
    { [t |-> "object", detail |-> Str("Upload not found")],
      [t |-> "object", detail |-> Arr(<<[t |-> "object", msg |-> Str("field required")]>>)],
      [t |-> "object"], Null, Unparsable }

FetchOutcomes(bodies, errorBodies) ==
    {Rejected(ErrorObject("Failed to fetch")), Rejected(Str("offline"))}
    \cup {Response(TRUE, "200", "OK", body) : body \in bodies \cup {Unparsable}}
    \cup {Response(FALSE, "500", "Internal Server Error", body) : body \in errorBodies}

\* A promise that has settled
Fulfilled(value) == [settled |-> "fulfilled", value |-> value]

\* ApiResponse<T>: { data } or { error }; an absent field reads as undefined
ApiData(data) == [data |-> data, error |-> Undefined]
ApiError(error) == [data |-> Undefined, error |-> error]

\* catch (error) { return { error: error instanceof Error ? error.message
\*                                  : 'Unknown error occurred' } }
Caught(error) ==
    Fulfilled(ApiError(IF error.t = "error" THEN Str(error.message)
                       ELSE Str("Unknown error occurred")))

\* errorData.detail
GetDetail(v) == IF IsObject(v) /\ "detail" \in DOMAIN v THEN v.detail ELSE Undefined

\* if (!response.ok) { const errorData = await response.json().catch(() => ({}));
\*   return { error: errorData.detail || `HTTP ${status}: ${statusText}` } }
\* reading detail of null throws into the catch block
NotOk(fetched, errorData) ==
    IF IsNullish(errorData)
    THEN Caught(ErrorObject("Cannot read properties of null (reading 'detail')"))
    ELSE Fulfilled(ApiError(IF Truthy(GetDetail(errorData)) THEN GetDetail(errorData)
                            ELSE Str("HTTP " \o fetched.status \o ": " \o fetched.statusText)))

\* ApiService.request, from what fetch settled to
request(fetched) ==
    IF fetched.kind = "rejected" THEN Caught(fetched.error)
    ELSE IF ~fetched.ok
    THEN NotOk(fetched, IF fetched.body = Unparsable THEN [t |-> "object"] ELSE fetched.body)
    ELSE IF fetched.body = Unparsable
    THEN Caught(ErrorObject("Unexpected end of JSON input"))
    ELSE Fulfilled(ApiData(fetched.body))

\* The LLM methods and the endpoints they request
LlmEndpoints ==
    [ getLLMRecommendations |-> "/api/llm/recommendations",
      getStoredLLMRecommendation |-> "/api/llm/recommendations/{uploadId}/{policyId}",
      persistLLMRecommendation |-> "/api/llm/recommendations/persist",
      regenerateLLMRecommendation |-> "/api/llm/recommendations/regenerate",
      generateRecommendedPolicy |-> "/api/llm/recommended-policy",
      getStoredRecommendedPolicy |-> "/api/llm/recommended-policy/{uploadId}/{policyId}",
      persistRecommendedPolicy |-> "/api/llm/recommended-policy/persist",
      regenerateRecommendedPolicy |-> "/api/llm/recommended-policy/regenerate",
      generateAttackPath |-> "/api/llm/attack-path",
      getStoredAttackPath |-> "/api/llm/attack-path/{uploadId}/{policyId}",
      persistAttackPath |-> "/api/llm/attack-path/persist",
      regenerateAttackPath |-> "/api/llm/attack-path/regenerate" ]

\* The upload wrappers as called: method, argument and the endpoint requested
UploadCalls ==
    { [method |-> "saveUpload", arg |-> Str("upload.json"), endpoint |-> "/api/uploads/"],
      [method |-> "deleteUpload", arg |-> Str("upload-1"), endpoint |-> "/api/uploads/{uploadId}"] }
    \cup { [method |-> "setCurrentUploadId", arg |-> arg,
            endpoint |-> "/api/uploads/current/{uploadId}"] :
              arg \in {Str("upload-1"), Str(""), Null} }

\* Bodies of 2xx replies: of /api/config, and of the other endpoints
ConfigBodies ==
    { [t |-> "object", llm_disabled |-> Bool(TRUE)],
      [t |-> "object", llm_disabled |-> Bool(FALSE)],
      [t |-> "object"] }
DataBodies == {[t |-> "object", id |-> Str("upload-1")], Null}

\* cfg.data?.llm_disabled ?? false
LlmDisabledOf(cfg) ==
    LET v == IF IsObject(cfg.data) /\ "llm_disabled" \in DOMAIN cfg.data
             THEN cfg.data.llm_disabled ELSE Undefined
    IN  IF IsNullish(v) THEN Bool(FALSE) ELSE v

\* if (response.error) return { success: false, error: response.error };
\* return { success: true, uploadId: response.data?.id }   (uploadId: saveUpload only)
UploadResult(method, response) ==
    IF Truthy(response.error)
    THEN [success |-> FALSE, error |-> response.error, uploadId |-> Undefined]
    ELSE [success |-> TRUE, error |-> Undefined,
          uploadId |-> IF method = "saveUpload" /\ IsObject(response.data)
                          /\ "id" \in DOMAIN response.data
                       THEN response.data.id ELSE Undefined]

\* A call at the await pc, or returned (pc "done"); cfg is the config reply an
\* LLM method received, if it asked for one
Waiting(method, arg, pc) == [method |-> method, arg |-> arg, pc |-> pc, cfg |-> NotSet]

\* The call that returned, recorded with what fetch settled to for its request,
\* what request made of that, and what the call's own promise settled to
Settled(call, fetched, response, outcome) ==
    [op |-> call.method, arg |-> call.arg, fetched |-> fetched, response |-> response,
     outcome |-> outcome]

\* An LLM method once LLM_DISABLED_RUNTIME is set: net is the network so far
\*   if (LLM_DISABLED_RUNTIME) return { error: 'LLM is disabled' };
\*   return this.request(endpoint, ...)
Gate(i, call, cs, net, flag) ==
    /\ LLM_DISABLED_RUNTIME' = flag
    /\ IF Truthy(flag)
       THEN /\ calls' = [cs EXCEPT ![i] = [call EXCEPT !.pc = "done"]]
            /\ network' = net
            /\ ret' = Settled(call, NotSet, NotSet, Fulfilled(ApiError(Str("LLM is disabled"))))
       ELSE /\ calls' = [cs EXCEPT ![i] = [call EXCEPT !.pc = "request"]]
            /\ network' = Append(net, LlmEndpoints[call.method])
            /\ ret' = ret

\* An LLM method is called: the config is asked for when LLM_DISABLED_RUNTIME is null
LlmCall(method) ==
    /\ Len(calls) < MaxCalls
    /\ IF LLM_DISABLED_RUNTIME = Null
       THEN /\ network' = Append(network, "/api/config")
            /\ calls' = Append(calls, Waiting(method, Undefined, "config"))
            /\ UNCHANGED <<LLM_DISABLED_RUNTIME, ret>>
       ELSE Gate(Len(calls) + 1, Waiting(method, Undefined, "gate"),
                 Append(calls, Waiting(method, Undefined, "gate")), network,
                 LLM_DISABLED_RUNTIME)
    /\ UNCHANGED <<policies, lastIndex, history, page>>

\* const cfg = await this.getRuntimeConfig();
\* LLM_DISABLED_RUNTIME = cfg.data?.llm_disabled ?? false;
ConfigReply(i) ==
    /\ calls[i].pc = "config"
    /\ \E fetched \in FetchOutcomes(ConfigBodies, {[t |-> "object"]}) :
           Gate(i, [calls[i] EXCEPT !.cfg = SetTo(request(fetched).value)], calls, network,
                LlmDisabledOf(request(fetched).value))
    /\ UNCHANGED <<policies, lastIndex, history, page>>

\* saveUpload, deleteUpload or setCurrentUploadId is called
\*   if (!uploadId) return { success: true };     (setCurrentUploadId only)
UploadCall(call) ==
    /\ Len(calls) < MaxCalls
    /\ IF call.method = "setCurrentUploadId" /\ ~Truthy(call.arg)
       THEN /\ calls' = Append(calls, Waiting(call.method, call.arg, "done"))
            /\ ret' = Settled(call, NotSet, NotSet,
                              Fulfilled([success |-> TRUE, error |-> Undefined,
                                         uploadId |-> Undefined]))
            /\ UNCHANGED network
       ELSE /\ network' = Append(network, call.endpoint)
            /\ calls' = Append(calls, Waiting(call.method, call.arg, "request"))
            /\ UNCHANGED ret
    /\ UNCHANGED <<policies, lastIndex, history, page, LLM_DISABLED_RUNTIME>>

\* The request of a call is answered: an LLM method returns what request gave, a
\* wrapper what it makes of it
RequestReply(i) ==
    /\ calls[i].pc = "request"
    /\ calls' = [calls EXCEPT ![i].pc = "done"]
    /\ \E fetched \in FetchOutcomes(DataBodies, ErrorBodies) :
           ret' = Settled(calls[i], SetTo(fetched), SetTo(request(fetched)),
                          IF calls[i].method \in DOMAIN LlmEndpoints
                             \/ request(fetched).settled # "fulfilled"
                          THEN request(fetched)
                          ELSE Fulfilled(UploadResult(calls[i].method, request(fetched).value)))
    /\ UNCHANGED <<policies, lastIndex, history, page, LLM_DISABLED_RUNTIME, network>>

ApiInit ==
    /\ policies = <<>>
    /\ lastIndex = [WILDCARD_PERMISSION |-> 0, WILDCARD_IAM |-> 0]
    /\ history = NoCall
    /\ ret = NoCall
    /\ page = NoPage
    /\ ApiIdle

ApiNext ==
    \/ \E method \in DOMAIN LlmEndpoints : LlmCall(method)
    \/ \E i \in 1..Len(calls) : ConfigReply(i)
    \/ \E call \in UploadCalls : UploadCall(call)
    \/ \E i \in 1..Len(calls) : RequestReply(i)

ApiSpec == ApiInit /\ [][ApiNext]_vars

(***************************************************************************)
(* What the properties below speak about.                                  *)
(***************************************************************************)
\* The last call was analyzePolicy, and the record it was given
Analyzed == ret.op = "analyzePolicy"
AnalyzedPolicy == policies[ret.arg].value
Returned_ == ret.outcome.kind = "return"

\* A version list that is a list of version objects
VersionObjects(p) ==
    /\ IsArray(p.PolicyVersionList)
    /\ \A i \in 1..Len(p.PolicyVersionList.a) : IsObject(p.PolicyVersionList.a[i])

\* Positions of the versions whose VersionId is the policy's DefaultVersionId
DefaultPositions(p) ==
    {i \in 1..Len(p.PolicyVersionList.a) :
        p.PolicyVersionList.a[i].VersionId = p.DefaultVersionId}
DefaultPosition(p) == CHOOSE i \in DefaultPositions(p) : \A j \in DefaultPositions(p) : i <= j
DefaultDocument(p) == p.PolicyVersionList.a[DefaultPosition(p)].Document

\* The policy has a default version, and that version has a document
HasDefaultDocument(p) ==
    /\ VersionObjects(p)
    /\ DefaultPositions(p) # {}
    /\ IsObject(DefaultDocument(p))

\* The statements of the default document: a sequence as it is, a bare object as
\* the sequence holding it, anything else as the empty sequence
StatementsOf(p) ==
    LET s == DefaultDocument(p).Statement
    IN  IF IsArray(s) THEN s.a ELSE IF IsObject(s) THEN <<s>> ELSE <<>>

\* The same policy with another Statement field in its default document
WithStatement(p, field) ==
    [p EXCEPT !.PolicyVersionList =
        Arr([i \in 1..Len(p.PolicyVersionList.a) |->
                IF i = DefaultPosition(p)
                THEN Version(p.PolicyVersionList.a[i].VersionId, Document(field))
                ELSE p.PolicyVersionList.a[i]])]

IsAllowStatement(s) == IsObject(s) /\ s.Effect = Str("Allow")

\* A value that is one string or a list of strings, and the strings in it
StringOrStrings(v) ==
    \/ IsString(v)
    \/ IsArray(v) /\ \A i \in 1..Len(v.a) : IsString(v.a[i])
StringsIn(v) ==
    IF IsString(v) THEN {v.s}
    ELSE IF IsArray(v) THEN {v.a[i].s : i \in {j \in 1..Len(v.a) : IsString(v.a[j])}}
    ELSE {}

\* The rule keys among the flags that name statement index idx, and those flags
FiredIds(flags, idx) ==
    {flags[k].id : k \in {j \in 1..Len(flags) : flags[j].affectedStatements = <<idx>>}}
FlagsAt(flags, idx) == SelectSeq(flags, LAMBDA f : f.affectedStatements = <<idx>>)
FlagIds(flags) == [k \in 1..Len(flags) |-> flags[k].id]
Reindexed(flags, idx) == [k \in 1..Len(flags) |-> [flags[k] EXCEPT !.affectedStatements = <<idx>>]]

\* The rule table of the specification, in its order: a rule fires on any one of
\* its actions, on all of them together, or on a Resource entry "*"
RuleTable ==
    << [id |-> "wildcard-permission", kind |-> "any", actions |-> {"*"}, severity |-> "HIGH"],
       [id |-> "wildcard-iam", kind |-> "any", actions |-> {"iam:*"}, severity |-> "HIGH"],
       [id |-> "wildcard-resource", kind |-> "resource", actions |-> {}, severity |-> "HIGH"],
       [id |-> "create-policy-version", kind |-> "any",
        actions |-> {"iam:CreatePolicyVersion"}, severity |-> "HIGH"],
       [id |-> "policy-version-manipulation", kind |-> "any",
        actions |-> {"iam:CreatePolicyVersion", "iam:SetDefaultPolicyVersion"}, severity |-> "HIGH"],
       [id |-> "passrole-any", kind |-> "any", actions |-> {"iam:PassRole"}, severity |-> "HIGH"],
       [id |-> "passrole-ec2", kind |-> "all",
        actions |-> {"iam:PassRole", "ec2:RunInstances"}, severity |-> "HIGH"],
       [id |-> "access-key-creation", kind |-> "any",
        actions |-> {"iam:CreateAccessKey"}, severity |-> "HIGH"],
       [id |-> "login-profile-manipulation", kind |-> "any",
        actions |-> {"iam:CreateLoginProfile", "iam:UpdateLoginProfile"}, severity |-> "HIGH"],
       [id |-> "policy-attachment", kind |-> "any",
        actions |-> {"iam:AttachUserPolicy", "iam:AttachGroupPolicy", "iam:AttachRolePolicy"},
        severity |-> "HIGH"],
       [id |-> "inline-policy-manipulation", kind |-> "any",
        actions |-> {"iam:PutUserPolicy", "iam:PutGroupPolicy", "iam:PutRolePolicy"},
        severity |-> "HIGH"],
       [id |-> "group-membership", kind |-> "any",
        actions |-> {"iam:AddUserToGroup"}, severity |-> "MEDIUM"],
       [id |-> "assume-role-policy-update", kind |-> "any",
        actions |-> {"iam:UpdateAssumeRolePolicy"}, severity |-> "HIGH"],
       [id |-> "lambda-privilege-escalation", kind |-> "all",
        actions |-> {"iam:PassRole", "lambda:CreateFunction", "lambda:InvokeFunction"},
        severity |-> "HIGH"],
       [id |-> "lambda-event-source-manipulation", kind |-> "all",
        actions |-> {"iam:PassRole", "lambda:CreateFunction", "lambda:CreateEventSourceMapping"},
        severity |-> "HIGH"],
       [id |-> "lambda-code-update", kind |-> "any",
        actions |-> {"lambda:UpdateFunctionCode"}, severity |-> "MEDIUM"],
       [id |-> "glue-privilege-escalation", kind |-> "all",
        actions |-> {"iam:PassRole", "glue:CreateDevEndpoint", "glue:GetDevEndpoint"},
        severity |-> "HIGH"],
       [id |-> "glue-endpoint-manipulation", kind |-> "all",
        actions |-> {"glue:UpdateDevEndpoint", "glue:GetDevEndpoint"}, severity |-> "MEDIUM"],
       [id |-> "cloudformation-privilege-escalation", kind |-> "all",
        actions |-> {"iam:PassRole", "cloudformation:CreateStack", "cloudformation:DescribeStacks"},
        severity |-> "HIGH"],
       [id |-> "datapipeline-privilege-escalation", kind |-> "all",
        actions |-> {"iam:PassRole", "datapipeline:CreatePipeline",
                     "datapipeline:PutPipelineDefinition", "datapipeline:ActivatePipeline"},
        severity |-> "HIGH"] >>

Triggered(rule, s) ==
    CASE rule.kind = "any" -> rule.actions \cap StringsIn(s.Action) # {}
      [] rule.kind = "all" -> rule.actions \subseteq StringsIn(s.Action)
      [] rule.kind = "resource" -> "*" \in StringsIn(s.Resource)
TriggeredIds(s) == {RuleTable[k].id : k \in {j \in 1..Len(RuleTable) : Triggered(RuleTable[j], s)}}

\* C1 speaks of Allow statements whose Action is a string or strings and whose
\* Resource is absent, a string or strings
PlainAllowStatement(s) ==
    /\ IsAllowStatement(s)
    /\ StringOrStrings(s.Action)
    /\ s.Resource = Undefined \/ StringOrStrings(s.Resource)

(***************************************************************************)
(* C1: for every Allow statement with string actions and string resources, *)
(* the rule keys analyzePolicy reports for the statement are exactly the   *)
(* rules of the specification's table whose trigger the statement          *)
(* satisfies: none missing, none extra.                                    *)
(***************************************************************************)
C1_ExactRuleSet ==
    (Analyzed /\ Returned_ /\ HasDefaultDocument(AnalyzedPolicy)) =>
        \A i \in 1..Len(StatementsOf(AnalyzedPolicy)) :
            PlainAllowStatement(StatementsOf(AnalyzedPolicy)[i]) =>
                FiredIds(ret.outcome.flags, i - 1) = TriggeredIds(StatementsOf(AnalyzedPolicy)[i])

\* Scenario 1: [iam:PassRole, ec2:RunInstances] on "*" reported as exactly three rules
C1_Witness ==
    /\ Analyzed /\ Returned_ /\ HasDefaultDocument(AnalyzedPolicy)
    /\ Len(StatementsOf(AnalyzedPolicy)) = 1
    /\ PlainAllowStatement(StatementsOf(AnalyzedPolicy)[1])
    /\ StringsIn(StatementsOf(AnalyzedPolicy)[1].Action) = {"iam:PassRole", "ec2:RunInstances"}
    /\ StatementsOf(AnalyzedPolicy)[1].Resource = Str("*")
    /\ FlagIds(ret.outcome.flags) = <<"wildcard-resource", "passrole-any", "passrole-ec2">>
    /\ ret.outcome.isHighRisk

(***************************************************************************)
(* C2: a statement whose Effect is not the string "Allow" contributes no   *)
(* finding, and the findings of every Allow statement are those it gets    *)
(* when analyzed alone, at its own index: other statements neither         *)
(* suppress nor alter them.                                                *)
(***************************************************************************)
C2_NonAllowSilent ==
    (Analyzed /\ Returned_ /\ HasDefaultDocument(AnalyzedPolicy)) =>
        /\ \A i \in 1..Len(StatementsOf(AnalyzedPolicy)) :
              IF IsAllowStatement(StatementsOf(AnalyzedPolicy)[i])
              THEN FlagsAt(ret.outcome.flags, i - 1) =
                     Reindexed(analyzePolicy(WithStatement(AnalyzedPolicy,
                                                Arr(<<StatementsOf(AnalyzedPolicy)[i]>>)),
                                             lastIndex).outcome.flags, i - 1)
              ELSE FlagsAt(ret.outcome.flags, i - 1) = <<>>
        /\ \A k \in 1..Len(ret.outcome.flags) :
              \E i \in 1..Len(StatementsOf(AnalyzedPolicy)) :
                  /\ ret.outcome.flags[k].affectedStatements = <<i - 1>>
                  /\ IsAllowStatement(StatementsOf(AnalyzedPolicy)[i])

\* Scenario 4: Deny on "*" at index 0, Allow on iam:CreateAccessKey at index 1
C2_Witness ==
    /\ Analyzed /\ Returned_ /\ HasDefaultDocument(AnalyzedPolicy)
    /\ Len(StatementsOf(AnalyzedPolicy)) = 2
    /\ IsObject(StatementsOf(AnalyzedPolicy)[1])
    /\ StatementsOf(AnalyzedPolicy)[1].Effect = Str("Deny")
    /\ StatementsOf(AnalyzedPolicy)[1].Action = Str("*")
    /\ IsAllowStatement(StatementsOf(AnalyzedPolicy)[2])
    /\ StatementsOf(AnalyzedPolicy)[2].Action = Str("iam:CreateAccessKey")
    /\ FlagIds(ret.outcome.flags) = <<"access-key-creation">>
    /\ ret.outcome.flags[1].affectedStatements = <<1>>

(***************************************************************************)
(* C3: when no version of the list has the default version's id, or the    *)
(* default version has no document, analyzePolicy returns the policy's id  *)
(* and name with no flags and isHighRisk = false, whatever the other       *)
(* versions hold.                                                          *)
(***************************************************************************)
C3_NoDefaultNoFlags ==
    (/\ Analyzed
     /\ VersionObjects(AnalyzedPolicy)
     /\ \/ DefaultPositions(AnalyzedPolicy) = {}
        \/ IsNullish(DefaultDocument(AnalyzedPolicy))) =>
        ret.outcome = [kind |-> "return",
                       policyId |-> AnalyzedPolicy.PolicyId,
                       policyName |-> AnalyzedPolicy.PolicyName,
                       flags |-> <<>>,
                       isHighRisk |-> FALSE]

\* No default version, beside a version that grants everything
C3_Witness ==
    /\ Analyzed
    /\ VersionObjects(AnalyzedPolicy)
    /\ DefaultPositions(AnalyzedPolicy) = {}
    /\ \E i \in 1..Len(AnalyzedPolicy.PolicyVersionList.a) :
          AnalyzedPolicy.PolicyVersionList.a[i].Document = AdminDocument
    /\ Returned_
    /\ ret.outcome.flags = <<>>
    /\ ~ret.outcome.isHighRisk

(***************************************************************************)
(* C4: in every result of analyzePolicy (also those analyzeAllPolicies     *)
(* collects), isHighRisk is true exactly when some flag has severity HIGH. *)
(***************************************************************************)
HighRiskIffHigh(r) ==
    r.isHighRisk <=> \E k \in 1..Len(r.flags) : r.flags[k].severity = "HIGH"

C4_HighRiskIffHigh ==
    /\ (Analyzed /\ Returned_) => HighRiskIffHigh(ret.outcome)
    /\ (ret.op = "analyzeAllPolicies" /\ Returned_) =>
          \A i \in 1..Len(ret.outcome.value) : HighRiskIffHigh(ret.outcome.value[i])

\* A result whose findings are all MEDIUM
C4_Witness ==
    /\ Analyzed /\ Returned_
    /\ ret.outcome.flags # <<>>
    /\ \A k \in 1..Len(ret.outcome.flags) : ret.outcome.flags[k].severity = "MEDIUM"
    /\ ~ret.outcome.isHighRisk

(***************************************************************************)
(* C5: analyzePolicy never throws, whatever the shape of the record.       *)
(* The code reads .find of PolicyVersionList, .VersionId of every list     *)
(* entry and .Effect of every statement entry without a guard.             *)
(***************************************************************************)
C5_NeverThrows == Analyzed => Returned_

(***************************************************************************)
(* C6: the flags are ordered by statement index, and within one statement  *)
(* by the order of the specification's rule table.  The code tests         *)
(* wildcard-resource before wildcard-permission and wildcard-iam.          *)
(***************************************************************************)
RulePosition(id) == CHOOSE j \in 1..Len(RuleTable) : RuleTable[j].id = id

C6_CatalogOrder ==
    (Analyzed /\ Returned_) =>
        \A k \in 1..(Len(ret.outcome.flags) - 1) :
            LET a == ret.outcome.flags[k]
                b == ret.outcome.flags[k + 1]
            IN  \/ a.affectedStatements[1] < b.affectedStatements[1]
                \/ /\ a.affectedStatements[1] = b.affectedStatements[1]
                   /\ RulePosition(a.id) < RulePosition(b.id)

(***************************************************************************)
(* C7: a default document whose Statement is one bare statement object is  *)
(* analyzed as the one-element sequence holding it, every flag at index 0; *)
(* an absent or empty Statement gives no flags and isHighRisk = false.     *)
(***************************************************************************)
C7_BareStatement ==
    (Analyzed /\ HasDefaultDocument(AnalyzedPolicy)) =>
        LET s == DefaultDocument(AnalyzedPolicy).Statement
        IN  /\ IsObject(s) =>
                 /\ Returned_
                 /\ ret.outcome =
                      analyzePolicy(WithStatement(AnalyzedPolicy, Arr(<<s>>)), lastIndex).outcome
                 /\ \A k \in 1..Len(ret.outcome.flags) :
                       ret.outcome.flags[k].affectedStatements = <<0>>
            /\ (s.t = "undefined" \/ (IsArray(s) /\ s.a = <<>>)) =>
                 /\ Returned_
                 /\ ret.outcome.flags = <<>>
                 /\ ~ret.outcome.isHighRisk

\* Scenario 5: a bare Allow statement on iam:*
C7_Witness ==
    /\ Analyzed /\ HasDefaultDocument(AnalyzedPolicy)
    /\ IsAllowStatement(DefaultDocument(AnalyzedPolicy).Statement)
    /\ DefaultDocument(AnalyzedPolicy).Statement.Action = Str("iam:*")
    /\ Returned_
    /\ FlagIds(ret.outcome.flags) = <<"wildcard-iam">>
    /\ ret.outcome.flags[1].affectedStatements = <<0>>

(***************************************************************************)
(* C8: appending an Allow statement to the Statement sequence keeps the    *)
(* flags found before as a prefix of the flags found after, and never      *)
(* turns isHighRisk from true to false.                                    *)
(***************************************************************************)
IsPrefix(q, r) == Len(q) <= Len(r) /\ SubSeq(r, 1, Len(q)) = q

AppendedStatements ==
    {s \in PoolStatements : IsAllowStatement(s)}
    \cup { Statement(Str("Allow"), Str("s3:GetObject"), ArnResource),
           Statement(Str("Allow"), Undefined, Undefined) }

C8_AppendMonotone ==
    (/\ Analyzed /\ Returned_ /\ HasDefaultDocument(AnalyzedPolicy)
     /\ IsArray(DefaultDocument(AnalyzedPolicy).Statement)) =>
        \A s \in AppendedStatements :
            LET after == analyzePolicy(
                            WithStatement(AnalyzedPolicy,
                                          Arr(Append(StatementsOf(AnalyzedPolicy), s))),
                            lastIndex).outcome
            IN  /\ after.kind = "return"
                /\ IsPrefix(ret.outcome.flags, after.flags)
                /\ ret.outcome.isHighRisk => after.isHighRisk

\* Two statements with flags each, before another is appended
C8_Witness ==
    /\ Analyzed /\ Returned_ /\ HasDefaultDocument(AnalyzedPolicy)
    /\ IsArray(DefaultDocument(AnalyzedPolicy).Statement)
    /\ Len(StatementsOf(AnalyzedPolicy)) >= 2
    /\ FlagsAt(ret.outcome.flags, 0) # <<>>
    /\ FlagsAt(ret.outcome.flags, 1) # <<>>

(***************************************************************************)
(* C9: adding one more action string to an Allow statement's Action (a     *)
(* single string becoming a list) never removes a rule key reported for    *)
(* that statement.                                                         *)
(***************************************************************************)
AddAction(action, a) ==
    IF IsArray(action) THEN Arr(Append(action.a, Str(a)))
    ELSE IF action.t = "undefined" THEN Arr(<<Str(a)>>)
    ELSE Arr(<<action, Str(a)>>)

WithAction(statements, i, a) ==
    [statements EXCEPT ![i] =
        Statement(statements[i].Effect, AddAction(statements[i].Action, a),
                  statements[i].Resource)]

C9_ActionAddMonotone ==
    (Analyzed /\ Returned_ /\ HasDefaultDocument(AnalyzedPolicy)) =>
        \A i \in 1..Len(StatementsOf(AnalyzedPolicy)) :
            IsAllowStatement(StatementsOf(AnalyzedPolicy)[i]) =>
                \A a \in ActionVocabulary :
                    FiredIds(ret.outcome.flags, i - 1) \subseteq
                    FiredIds(analyzePolicy(
                                WithStatement(AnalyzedPolicy,
                                              Arr(WithAction(StatementsOf(AnalyzedPolicy), i, a))),
                                lastIndex).outcome.flags, i - 1)

\* A statement whose Action is one bare string and fires a rule
C9_Witness ==
    /\ Analyzed /\ Returned_ /\ HasDefaultDocument(AnalyzedPolicy)
    /\ Len(StatementsOf(AnalyzedPolicy)) = 1
    /\ IsAllowStatement(StatementsOf(AnalyzedPolicy)[1])
    /\ StatementsOf(AnalyzedPolicy)[1].Action = Str("iam:*")
    /\ FiredIds(ret.outcome.flags, 0) = {"wildcard-iam"}

(***************************************************************************)
(* C10: once analyzePolicy has been called on a policy record, every later *)
(* call on the same record returns the same outcome, whatever calls of     *)
(* analyzePolicy, analyzeAllPolicies, getHighRiskPolicies or               *)
(* getSecuritySummary were made in between; and the outcome is the one of  *)
(* the record that holds the same identifier, the same name and the        *)
(* default document alone.                                                 *)
(***************************************************************************)
OnlyDefaultVersion(p) ==
    Policy(p.PolicyId, p.PolicyName, Str("v"), Arr(<<Version(Str("v"), DefaultDocument(p))>>))

FunctionOfDefaultDocument ==
    (Analyzed /\ HasDefaultDocument(AnalyzedPolicy)) =>
        ret.outcome = analyzePolicy(OnlyDefaultVersion(AnalyzedPolicy), lastIndex).outcome

C10_Deterministic ==
    /\ [][(/\ history # NoCall
           /\ ret'.op = "analyzePolicy"
           /\ ret'.arg = history.first.arg) => ret'.outcome = history.first.outcome]_vars
    /\ []FunctionOfDefaultDocument

\* A policy on "*" analyzed, another call made, and the policy analyzed again
C10_Witness ==
    /\ history # NoCall
    /\ history.repeated
    /\ Analyzed /\ Returned_
    /\ ret.arg = history.first.arg
    /\ \E k \in 1..Len(ret.outcome.flags) : ret.outcome.flags[k].id = "wildcard-permission"

(***************************************************************************)
(* C11: getSecuritySummary returns the number of policies of the           *)
(* collection, the number of them whose own analysis is high-risk, the sum *)
(* of their finding counts and the number of their HIGH findings.          *)
(***************************************************************************)
FreshLastIndex == [WILDCARD_PERMISSION |-> 0, WILDCARD_IAM |-> 0]

\* analyzePolicy on one record alone
Alone(p) == analyzePolicy(p, FreshLastIndex).outcome

AllReturn == \A i \in 1..Len(policies) : Alone(policies[i].value).kind = "return"

FlagCount(flags, highOnly) ==
    Cardinality({k \in 1..Len(flags) : highOnly => flags[k].severity = "HIGH"})

RECURSIVE TotalOver(_, _)
TotalOver(n, highOnly) ==
    IF n = 0 THEN 0
    ELSE FlagCount(Alone(policies[n].value).flags, highOnly) + TotalOver(n - 1, highOnly)

C11_SummaryCounts ==
    (ret.op = "getSecuritySummary" /\ AllReturn) =>
        ret.outcome =
            [kind |-> "return",
             totalPolicies |-> Len(policies),
             highRiskPolicies |->
                 Cardinality({i \in 1..Len(policies) : Alone(policies[i].value).isHighRisk}),
             totalSecurityFlags |-> TotalOver(Len(policies), FALSE),
             highSeverityFlags |-> TotalOver(Len(policies), TRUE)]

\* Scenario 6: three policies, one with HIGH findings, one with a MEDIUM finding
\* only, one with none
C11_Witness ==
    /\ ret.op = "getSecuritySummary"
    /\ Len(policies) = 3
    /\ {policies[i].value.PolicyId : i \in 1..3} = {"ANPAH", "ANPAM", "ANPAN"}
    /\ ret.outcome = [kind |-> "return", totalPolicies |-> 3, highRiskPolicies |-> 1,
                      totalSecurityFlags |-> 3, highSeverityFlags |-> 2]

(***************************************************************************)
(* C12: analyzeAllPolicies returns one result per policy of the            *)
(* collection, in the insertion order of its entries, the i-th result      *)
(* being that of analyzePolicy on the i-th policy alone.  Object.values    *)
(* lists the values of integer-like keys first, in ascending order.        *)
(***************************************************************************)
C12_InsertionOrder ==
    (ret.op = "analyzeAllPolicies" /\ AllReturn) =>
        /\ ret.outcome.kind = "return"
        /\ Len(ret.outcome.value) = Len(policies)
        /\ \A i \in 1..Len(policies) : ret.outcome.value[i] = Alone(policies[i].value)

(***************************************************************************)
(* C13: every finding names, as a one-element list, the zero-based         *)
(* position in the normalized Statement sequence of an Allow statement     *)
(* that satisfies the finding's rule, skipped statements counted; and no   *)
(* two findings share both rule key and statement, also when several       *)
(* actions of one rule are present or an action is repeated.               *)
(***************************************************************************)
C13_AffectedStatements ==
    (Analyzed /\ Returned_ /\ HasDefaultDocument(AnalyzedPolicy)) =>
        LET st == StatementsOf(AnalyzedPolicy)
            flags == ret.outcome.flags
        IN  /\ \A k \in 1..Len(flags) :
                  \E i \in 1..Len(st) :
                      /\ flags[k].affectedStatements = <<i - 1>>
                      /\ IsAllowStatement(st[i])
                      /\ flags[k].id \in TriggeredIds(st[i])
            /\ \A k, l \in 1..Len(flags) :
                  (/\ flags[k].id = flags[l].id
                   /\ flags[k].affectedStatements = flags[l].affectedStatements) => k = l

\* iam:PassRole listed twice in one Action list, reported once at index 0
C13_Witness ==
    /\ Analyzed /\ Returned_ /\ HasDefaultDocument(AnalyzedPolicy)
    /\ Len(StatementsOf(AnalyzedPolicy)) = 1
    /\ IsAllowStatement(StatementsOf(AnalyzedPolicy)[1])
    /\ StatementsOf(AnalyzedPolicy)[1].Action = Arr(<<Str("iam:PassRole"), Str("iam:PassRole")>>)
    /\ ret.outcome.flags = <<SecurityFlag("passrole-any", DANGEROUS_PATTERNS.PASSROLE_ANY, 0)>>

(***************************************************************************)
(* C14: a co-occurrence rule is reported for a statement only when that    *)
(* one Allow statement holds all of the rule's actions; actions spread     *)
(* over several statements of a document do not fire it.                   *)
(***************************************************************************)
CoOccurrenceRules == {RuleTable[j] : j \in {k \in 1..Len(RuleTable) : RuleTable[k].kind = "all"}}

C14_CoOccurrence ==
    (Analyzed /\ Returned_ /\ HasDefaultDocument(AnalyzedPolicy)) =>
        LET st == StatementsOf(AnalyzedPolicy)
        IN  \A rule \in CoOccurrenceRules :
                /\ \A i \in 1..Len(st) :
                       rule.id \in FiredIds(ret.outcome.flags, i - 1) =>
                           /\ IsAllowStatement(st[i])
                           /\ rule.actions \subseteq StringsIn(st[i].Action)
                /\ (\A i \in 1..Len(st) :
                        ~(IsAllowStatement(st[i]) /\ rule.actions \subseteq StringsIn(st[i].Action)))
                   => \A k \in 1..Len(ret.outcome.flags) : ret.outcome.flags[k].id # rule.id

\* iam:PassRole in statement 0 and ec2:RunInstances in statement 1: no passrole-ec2
C14_Witness ==
    /\ Analyzed /\ Returned_ /\ HasDefaultDocument(AnalyzedPolicy)
    /\ Len(StatementsOf(AnalyzedPolicy)) = 2
    /\ IsAllowStatement(StatementsOf(AnalyzedPolicy)[1])
    /\ IsAllowStatement(StatementsOf(AnalyzedPolicy)[2])
    /\ StringsIn(StatementsOf(AnalyzedPolicy)[1].Action) = {"iam:PassRole"}
    /\ StringsIn(StatementsOf(AnalyzedPolicy)[2].Action) = {"ec2:RunInstances"}
    /\ FlagIds(ret.outcome.flags) = <<"wildcard-resource", "passrole-any">>

(***************************************************************************)
(* C15: findings are not deduplicated: for every rule the result holds one *)
(* finding per Allow statement that satisfies it, so the number of         *)
(* findings is the number of (Allow statement, rule) pairs whose trigger   *)
(* holds.                                                                  *)
(***************************************************************************)
TriggeredPairs(st) ==
    {pair \in (1..Len(st)) \X (1..Len(RuleTable)) :
        /\ IsAllowStatement(st[pair[1]])
        /\ Triggered(RuleTable[pair[2]], st[pair[1]])}

C15_NoDeduplication ==
    (Analyzed /\ Returned_ /\ HasDefaultDocument(AnalyzedPolicy)) =>
        LET st == StatementsOf(AnalyzedPolicy)
            flags == ret.outcome.flags
        IN  /\ Len(flags) = Cardinality(TriggeredPairs(st))
            /\ \A pair \in TriggeredPairs(st) :
                  Cardinality({k \in 1..Len(flags) :
                                  /\ flags[k].id = RuleTable[pair[2]].id
                                  /\ flags[k].affectedStatements = <<pair[1] - 1>>}) = 1

\* The same rule satisfied by two statements, reported for each
C15_Witness ==
    /\ Analyzed /\ Returned_ /\ HasDefaultDocument(AnalyzedPolicy)
    /\ Len(StatementsOf(AnalyzedPolicy)) = 2
    /\ FlagIds(ret.outcome.flags) = <<"access-key-creation", "access-key-creation">>
    /\ ret.outcome.flags[1].affectedStatements = <<0>>
    /\ ret.outcome.flags[2].affectedStatements = <<1>>

(***************************************************************************)
(* C16: every finding has the severity the rule table gives its rule key:  *)
(* MEDIUM for group-membership, lambda-code-update and                     *)
(* glue-endpoint-manipulation, HIGH for the other seventeen, never LOW; a  *)
(* policy whose findings are all of the three MEDIUM rules has             *)
(* isHighRisk = false.                                                     *)
(***************************************************************************)
MediumRules == {"group-membership", "lambda-code-update", "glue-endpoint-manipulation"}

C16_CatalogSeverity ==
    (Analyzed /\ Returned_) =>
        LET flags == ret.outcome.flags
        IN  /\ \A k \in 1..Len(flags) :
                  /\ flags[k].severity = RuleTable[RulePosition(flags[k].id)].severity
                  /\ flags[k].severity = (IF flags[k].id \in MediumRules THEN "MEDIUM" ELSE "HIGH")
                  /\ flags[k].severity # "LOW"
            /\ (\A k \in 1..Len(flags) : flags[k].id \in MediumRules) => ~ret.outcome.isHighRisk

\* glue:UpdateDevEndpoint with glue:GetDevEndpoint: one MEDIUM finding, not high-risk
C16_Witness ==
    /\ Analyzed /\ Returned_ /\ HasDefaultDocument(AnalyzedPolicy)
    /\ Len(StatementsOf(AnalyzedPolicy)) = 1
    /\ StringsIn(StatementsOf(AnalyzedPolicy)[1].Action) =
          {"glue:UpdateDevEndpoint", "glue:GetDevEndpoint"}
    /\ Len(ret.outcome.flags) = 1
    /\ ret.outcome.flags[1].id = "glue-endpoint-manipulation"
    /\ ret.outcome.flags[1].severity = "MEDIUM"
    /\ ~ret.outcome.isHighRisk

(***************************************************************************)
(* C17: only the default version is analyzed: a record with distinct       *)
(* version identifiers and any record that has the same PolicyId,          *)
(* PolicyName, DefaultVersionId and default version, but other non-default *)
(* versions before or after it, are given equal results.                   *)
(***************************************************************************)
DistinctVersionIds(p) ==
    \A i, j \in 1..Len(p.PolicyVersionList.a) :
        p.PolicyVersionList.a[i].VersionId = p.PolicyVersionList.a[j].VersionId => i = j

\* Non-default versions put before and after the default one
NonDefaultVersions ==
    { <<>>,
      <<Version(Str("v9"), AdminDocument)>>,
      <<Version(Str("v8"), Undefined), Version(Str("v9"), AdminDocument)>> }

WithOtherVersions(p, before, after) ==
    [p EXCEPT !.PolicyVersionList =
        Arr(before \o <<p.PolicyVersionList.a[DefaultPosition(p)]>> \o after)]

C17_OnlyDefaultVersion ==
    (/\ Analyzed
     /\ VersionObjects(AnalyzedPolicy)
     /\ DistinctVersionIds(AnalyzedPolicy)
     /\ DefaultPositions(AnalyzedPolicy) # {}) =>
        \A before, after \in NonDefaultVersions :
            (before = <<>> \/ after = <<>>) =>
                analyzePolicy(WithOtherVersions(AnalyzedPolicy, before, after), lastIndex).outcome
                    = ret.outcome

\* A non-default version granting "*" on "*" beside a default version without findings
C17_Witness ==
    /\ Analyzed /\ Returned_ /\ HasDefaultDocument(AnalyzedPolicy)
    /\ Len(AnalyzedPolicy.PolicyVersionList.a) = 2
    /\ AnalyzedPolicy.PolicyVersionList.a[1].Document = AdminDocument
    /\ DefaultPosition(AnalyzedPolicy) = 2
    /\ ret.outcome.flags = <<>>

(***************************************************************************)
(* C18: the analysis functions keep no state between invocations and leave *)
(* the records they are given unchanged: whatever invocations came before, *)
(* in whatever order, an invocation returns what it returns when run alone *)
(* on a fresh module, and the results analyzeAllPolicies gives for the     *)
(* policies of a collection are those of each policy analyzed alone.       *)
(***************************************************************************)
RunAlone(op, arg) ==
    CASE op = "analyzePolicy" -> analyzePolicy(policies[arg].value, FreshLastIndex).outcome
      [] op = "analyzeAllPolicies" -> analyzeAllPolicies(policies, FreshLastIndex).outcome
      [] op = "getHighRiskPolicies" -> getHighRiskPolicies(policies, FreshLastIndex).outcome
      [] op = "getSecuritySummary" -> getSecuritySummary(policies, FreshLastIndex).outcome
      [] op = "SecurityReport" ->
            SecurityReport(analyzeAllPolicies(policies, FreshLastIndex).outcome.value)

EachPolicyAlone ==
    (ret.op = "analyzeAllPolicies" /\ ret.outcome.kind = "return") =>
        \A k \in 1..Len(ret.outcome.value) :
            ret.outcome.value[k] = Alone(ObjectValues(policies)[k])

C18_NoSharedState ==
    /\ [][/\ policies' = policies
           /\ lastIndex' = lastIndex
           /\ ret'.outcome = RunAlone(ret'.op, ret'.arg)]_vars
    /\ []EachPolicyAlone

\* A summary asked for after the whole collection and one of its policies were analyzed
C18_Witness ==
    /\ history # NoCall
    /\ Len(policies) = 3
    /\ \E i \in 1..3 : policies[i].value.PolicyId = "ANPAH"
    /\ ret.op = "getSecuritySummary"
    /\ ret.outcome.kind = "return"
    /\ ret.outcome.highRiskPolicies = 1

(***************************************************************************)
(* C20: entries of an Allow statement's Action that are not strings        *)
(* (numbers, null, booleans, objects, nested lists, an absent Action) are  *)
(* dropped: the analysis returns, the statement is reported for the rules  *)
(* its string entries alone fire, and with no string entry for             *)
(* wildcard-resource at most.                                              *)
(***************************************************************************)
StringEntries(action) ==
    IF IsArray(action) THEN SelectSeq(action.a, IsString)
    ELSE IF IsString(action) THEN <<action>>
    ELSE <<>>

StringsOnly(s) == Statement(s.Effect, Arr(StringEntries(s.Action)), s.Resource)

C20_NonStringActions ==
    (Analyzed /\ HasDefaultDocument(AnalyzedPolicy)) =>
        LET st == StatementsOf(AnalyzedPolicy)
        IN  /\ (\A i \in 1..Len(st) : IsObject(st[i])) => Returned_
            /\ Returned_ =>
                  \A i \in 1..Len(st) :
                      IsAllowStatement(st[i]) =>
                          /\ FiredIds(ret.outcome.flags, i - 1) =
                                FiredIds(Alone(SimplePolicy("ANPA0", <<StringsOnly(st[i])>>)).flags, 0)
                          /\ StringEntries(st[i].Action) = <<>> =>
                                FiredIds(ret.outcome.flags, i - 1) \subseteq {"wildcard-resource"}

\* [null, "iam:PassRole"] on "*": the string entry still fires passrole-any
C20_Witness ==
    /\ Analyzed /\ Returned_ /\ HasDefaultDocument(AnalyzedPolicy)
    /\ Len(StatementsOf(AnalyzedPolicy)) = 1
    /\ IsAllowStatement(StatementsOf(AnalyzedPolicy)[1])
    /\ StatementsOf(AnalyzedPolicy)[1].Action = Arr(<<Null, Str("iam:PassRole")>>)
    /\ FlagIds(ret.outcome.flags) = <<"wildcard-resource", "passrole-any">>

(***************************************************************************)
(* C19: on the policy page and on the dashboard the analysis functions are *)
(* invoked only after getCurrentUploadId gave an upload id and getUpload   *)
(* gave the dataset (and, on the policy page, the dataset has the policy   *)
(* of the route); when a fetch gives an error or nothing, the page         *)
(* redirects to "/" without any analysis; and an analysis result is set    *)
(* only after the dataset was set.                                         *)
(***************************************************************************)
GotUploadId(r) == r # PendingResult /\ r.error = Undefined /\ IsString(r.uploadId) /\ r.uploadId.s # ""
GotDataset(r) == r # PendingResult /\ r.error = Undefined /\ r.data = ProcessedIAMData

C19_AnalysisAfterLoad ==
    /\ page.invoked # <<>> =>
          /\ GotUploadId(page.currentResult)
          /\ GotDataset(page.uploadResult)
          /\ page.kind = "policy" => \E i \in 1..Len(policies) : policies[i].key = page.policyId
    /\ (page.currentResult # PendingResult /\ ~GotUploadId(page.currentResult)) =>
          /\ page.pc = "redirected" /\ page.redirect = "/"
          /\ page.uploadResult = PendingResult
          /\ page.invoked = <<>>
    /\ (page.uploadResult # PendingResult /\ ~GotDataset(page.uploadResult)) =>
          /\ page.pc = "redirected" /\ page.redirect = "/"
          /\ page.invoked = <<>>
    /\ (page.securityAnalysis.set \/ page.securitySummary.set) =>
          /\ page.data = SetTo(ProcessedIAMData)
          /\ GotUploadId(page.currentResult)
          /\ GotDataset(page.uploadResult)
          /\ page.invoked # <<>>

\* The policy page loaded on a high-risk policy, its analysis set after the dataset
C19_Witness ==
    /\ page.kind = "policy"
    /\ page.pc = "loaded"
    /\ page.data.set
    /\ page.invoked = <<"analyzePolicy">>
    /\ page.securityAnalysis.set
    /\ page.securityAnalysis.value.isHighRisk

(***************************************************************************)
(* C21: a default document whose Statement is a string, a number or a      *)
(* boolean is a document with nothing to inspect: analyzePolicy returns    *)
(* the policy's id and name with flags = [] and isHighRisk = false and     *)
(* raises no error.                                                        *)
(***************************************************************************)
ScalarStatement(p) == DefaultDocument(p).Statement.t \in {"string", "number", "boolean"}

C21_ScalarStatement ==
    (Analyzed /\ HasDefaultDocument(AnalyzedPolicy) /\ ScalarStatement(AnalyzedPolicy)) =>
        ret.outcome = [kind |-> "return",
                       policyId |-> AnalyzedPolicy.PolicyId,
                       policyName |-> AnalyzedPolicy.PolicyName,
                       flags |-> <<>>,
                       isHighRisk |-> FALSE]

\* Statement is the string "Allow", beside a version that grants everything
C21_Witness ==
    /\ Analyzed /\ HasDefaultDocument(AnalyzedPolicy)
    /\ DefaultDocument(AnalyzedPolicy).Statement = Str("Allow")
    /\ Len(AnalyzedPolicy.PolicyVersionList.a) = 2
    /\ Returned_
    /\ ret.outcome.flags = <<>>
    /\ ~ret.outcome.isHighRisk

(***************************************************************************)
(* C22: action matching is exact and case-sensitive, without wildcard      *)
(* expansion: wildcard-permission is reported for an Allow statement       *)
(* exactly when one of its action strings is "*", wildcard-iam exactly     *)
(* when one is "iam:*", any other action rule only when the statement      *)
(* holds one of the rule's literals; a statement whose action strings are  *)
(* among "*", "iam:*", "iam:Pass*", "IAM:PassRole" and "s3:*" is reported  *)
(* for no literal-action or co-occurrence rule, and "s3:*" fires neither   *)
(* wildcard rule.                                                          *)
(***************************************************************************)
NearMisses == {"*", "iam:*", "iam:Pass*", "IAM:PassRole", "s3:*"}
WildcardRules == {"wildcard-resource", "wildcard-permission", "wildcard-iam"}
LiteralRules == {RuleTable[j] : j \in {k \in 1..Len(RuleTable) : RuleTable[k].id \notin WildcardRules}}

C22_ExactMatching ==
    (Analyzed /\ Returned_ /\ HasDefaultDocument(AnalyzedPolicy)) =>
        LET st == StatementsOf(AnalyzedPolicy)
        IN  \A i \in 1..Len(st) :
                IsAllowStatement(st[i]) =>
                    LET A == StringsIn(st[i].Action)
                        fired == FiredIds(ret.outcome.flags, i - 1)
                    IN  /\ "wildcard-permission" \in fired <=> "*" \in A
                        /\ "wildcard-iam" \in fired <=> "iam:*" \in A
                        /\ \A rule \in LiteralRules :
                              rule.id \in fired => rule.actions \cap A # {}
                        /\ A \subseteq NearMisses => fired \subseteq WildcardRules
                        /\ A = {"s3:*"} => fired \subseteq {"wildcard-resource"}

\* IAM:PassRole alone on "*": wildcard-resource and nothing else
C22_Witness ==
    /\ Analyzed /\ Returned_ /\ HasDefaultDocument(AnalyzedPolicy)
    /\ Len(StatementsOf(AnalyzedPolicy)) = 1
    /\ IsAllowStatement(StatementsOf(AnalyzedPolicy)[1])
    /\ StringsIn(StatementsOf(AnalyzedPolicy)[1].Action) = {"IAM:PassRole"}
    /\ StatementsOf(AnalyzedPolicy)[1].Resource = Str("*")
    /\ FlagIds(ret.outcome.flags) = <<"wildcard-resource">>

(***************************************************************************)
(* C23: wildcard-resource is reported for an Allow statement exactly when  *)
(* its Resource is the string "*" or a list with an entry that is the      *)
(* string "*", whatever its Action is (absent or without a string entry    *)
(* too); not when Resource is absent, when its entries only contain or end *)
(* with "*", or when they are no strings.                                  *)
(***************************************************************************)
HasStarEntry(resource) ==
    \/ resource = Str("*")
    \/ IsArray(resource) /\ Str("*") \in {resource.a[k] : k \in 1..Len(resource.a)}

C23_WildcardResource ==
    (Analyzed /\ Returned_ /\ HasDefaultDocument(AnalyzedPolicy)) =>
        LET st == StatementsOf(AnalyzedPolicy)
        IN  \A i \in 1..Len(st) :
                IsAllowStatement(st[i]) =>
                    LET fired == FiredIds(ret.outcome.flags, i - 1)
                    IN  /\ "wildcard-resource" \in fired <=> HasStarEntry(st[i].Resource)
                        /\ StringsIn(st[i].Action) = {} =>
                              fired = (IF HasStarEntry(st[i].Resource)
                                       THEN {"wildcard-resource"} ELSE {})
                        /\ st[i].Resource \in {Undefined, ArnResource, Arr(<<Arr(<<Str("*")>>)>>)} =>
                              "wildcard-resource" \notin fired

\* No Action, Resource a list whose second entry is "*"
C23_Witness ==
    /\ Analyzed /\ Returned_ /\ HasDefaultDocument(AnalyzedPolicy)
    /\ Len(StatementsOf(AnalyzedPolicy)) = 1
    /\ IsAllowStatement(StatementsOf(AnalyzedPolicy)[1])
    /\ StatementsOf(AnalyzedPolicy)[1].Action = Undefined
    /\ StatementsOf(AnalyzedPolicy)[1].Resource = Arr(<<ArnResource, Str("*")>>)
    /\ FlagIds(ret.outcome.flags) = <<"wildcard-resource">>

(***************************************************************************)
(* C24: on one statement, a report of passrole-ec2,                        *)
(* lambda-privilege-escalation, lambda-event-source-manipulation,          *)
(* glue-privilege-escalation, cloudformation-privilege-escalation or       *)
(* datapipeline-privilege-escalation comes with a report of passrole-any   *)
(* for the same statement, and a report of create-policy-version with one  *)
(* of policy-version-manipulation.                                         *)
(***************************************************************************)
PassRoleRules ==
    {"passrole-ec2", "lambda-privilege-escalation", "lambda-event-source-manipulation",
     "glue-privilege-escalation", "cloudformation-privilege-escalation",
     "datapipeline-privilege-escalation"}

C24_Subsumption ==
    (Analyzed /\ Returned_) =>
        \A k \in 1..Len(ret.outcome.flags) :
            LET fired == FiredIds(ret.outcome.flags, ret.outcome.flags[k].affectedStatements[1])
            IN  /\ fired \cap PassRoleRules # {} => "passrole-any" \in fired
                /\ "create-policy-version" \in fired => "policy-version-manipulation" \in fired

\* The four data pipeline actions in one statement
C24_Witness ==
    /\ Analyzed /\ Returned_
    /\ FlagIds(ret.outcome.flags) = <<"passrole-any", "datapipeline-privilege-escalation">>
    /\ ret.outcome.flags[1].affectedStatements = ret.outcome.flags[2].affectedStatements

(***************************************************************************)
(* C25: every summary getSecuritySummary returns has                       *)
(* highRiskPolicies <= totalPolicies, highSeverityFlags <=                 *)
(* totalSecurityFlags, highRiskPolicies <= highSeverityFlags, and          *)
(* highRiskPolicies = 0 exactly when highSeverityFlags = 0; and            *)
(* getHighRiskPolicies returns the results of analyzeAllPolicies on the    *)
(* same collection that have isHighRisk = true, in their order, as many as *)
(* highRiskPolicies says.                                                  *)
(***************************************************************************)
SummaryBounds(summary) ==
    /\ summary.highRiskPolicies <= summary.totalPolicies
    /\ summary.highSeverityFlags <= summary.totalSecurityFlags
    /\ summary.highRiskPolicies <= summary.highSeverityFlags
    /\ summary.highRiskPolicies = 0 <=> summary.highSeverityFlags = 0

\* The subsequence of the high-risk results of a list of results
HighRiskPositions(rs) == {i \in 1..Len(rs) : rs[i].isHighRisk}
RECURSIVE InOrder(_, _)
InOrder(rs, S) ==
    IF S = {} THEN <<>>
    ELSE LET m == CHOOSE i \in S : \A j \in S : i <= j
         IN  <<rs[m]>> \o InOrder(rs, S \ {m})

C25_SummaryBounds ==
    /\ (ret.op = "getSecuritySummary" /\ Returned_) => SummaryBounds(ret.outcome)
    /\ (ret.op = "getHighRiskPolicies" /\ Returned_) =>
          LET all == analyzeAllPolicies(policies, lastIndex).outcome
              summary == getSecuritySummary(policies, lastIndex).outcome
          IN  /\ all.kind = "return" /\ summary.kind = "return"
              /\ SummaryBounds(summary)
              /\ ret.outcome.value = InOrder(all.value, HighRiskPositions(all.value))
              /\ Len(ret.outcome.value) = summary.highRiskPolicies

\* A high-risk policy between two that are not: one result kept
C25_Witness ==
    /\ ret.op = "getHighRiskPolicies" /\ Returned_
    /\ Len(policies) = 3
    /\ policies[2].value.PolicyId = "ANPAH"
    /\ \A i \in 1..3 : ~policies[i].key.isIndex
    /\ Len(ret.outcome.value) = 1
    /\ ret.outcome.value[1].policyId = "ANPAH"
    /\ getSecuritySummary(policies, lastIndex).outcome.highSeverityFlags = 2

(***************************************************************************)
(* C26: the counts SecurityReport derives from the results of              *)
(* analyzeAllPolicies agree with getSecuritySummary on the same policies:  *)
(* as many high-risk policies as highRiskPolicies, as many flags as        *)
(* totalSecurityFlags, as many HIGH flags as highSeverityFlags; and its    *)
(* HIGH, MEDIUM and LOW counts add up to its total.                        *)
(***************************************************************************)
C26_ReportAgrees ==
    ret.op = "SecurityReport" =>
        LET summary == getSecuritySummary(policies, lastIndex).outcome
            report == ret.outcome
        IN  /\ summary.kind = "return"
            /\ Len(report.highRiskPolicies) = summary.highRiskPolicies
            /\ report.totalFlags = summary.totalSecurityFlags
            /\ report.highSeverityFlags = summary.highSeverityFlags
            /\ report.highSeverityFlags + report.mediumSeverityFlags + report.lowSeverityFlags
                  = report.totalFlags

\* Scenario 6 rendered: one high-risk policy, two HIGH flags and one MEDIUM flag
C26_Witness ==
    /\ ret.op = "SecurityReport"
    /\ Len(policies) = 3
    /\ Len(ret.outcome.highRiskPolicies) = 1
    /\ ret.outcome.totalFlags = 3
    /\ ret.outcome.highSeverityFlags = 2
    /\ ret.outcome.mediumSeverityFlags = 1
    /\ ret.outcome.lowSeverityFlags = 0

(***************************************************************************)
(* C27: in every input the policy page's generate handlers build for the   *)
(* generative service, each detected flag's affectedStatements index is a  *)
(* position of the statements list of the same input, and that list is the *)
(* normalized Statement sequence the findings were computed from.  The     *)
(* handlers send [] for a Statement that is one bare object, where         *)
(* analyzePolicy inspected the one-element sequence.                       *)
(***************************************************************************)
PagePolicy == LookupPolicy(policies, page.policyId).value

C27_RequestStatements ==
    page.llmInput.set =>
        LET input == page.llmInput.value
        IN  /\ \A k \in 1..Len(input.detectedFlags) :
                  input.detectedFlags[k].affectedStatements[1] \in 0..(Len(input.statements) - 1)
            /\ HasDefaultDocument(PagePolicy) => input.statements = StatementsOf(PagePolicy)

(***************************************************************************)
(* C28: once LLM_DISABLED_RUNTIME has been set it never changes, whatever  *)
(* later config replies say; and while it is true no request goes to an    *)
(* /api/llm/ endpoint and every LLM method called returns the error        *)
(* 'LLM is disabled'.                                                      *)
(***************************************************************************)
IsLlmEndpoint(endpoint) == endpoint \in {LlmEndpoints[m] : m \in DOMAIN LlmEndpoints}

\* The requests issued by the step
NewRequests == SubSeq(network', Len(network) + 1, Len(network'))

LlmRequested == \E k \in 1..Len(NewRequests) : IsLlmEndpoint(NewRequests[k])

\* The step begins a call of an LLM method
LlmCalled == Len(calls') > Len(calls) /\ calls'[Len(calls')].method \in DOMAIN LlmEndpoints

FlagKept == LLM_DISABLED_RUNTIME # Null => LLM_DISABLED_RUNTIME' = LLM_DISABLED_RUNTIME

DisabledGates ==
    LLM_DISABLED_RUNTIME = Bool(TRUE) =>
        /\ ~LlmRequested
        /\ LlmCalled =>
               /\ ret'.op = calls'[Len(calls')].method
               /\ ret'.outcome = Fulfilled(ApiError(Str("LLM is disabled")))
               /\ calls'[Len(calls')].pc = "done"

C28_LlmGating == [][FlagKept /\ DisabledGates]_vars

(***************************************************************************)
(* C29: over any calls of LLM methods, overlapping ones included,          *)
(* /api/config is requested at most once; no /api/llm/ request is issued   *)
(* before a config reply has been received and stored; and a failed config *)
(* request is stored as not disabled.                                      *)
(***************************************************************************)
ConfigRequests(net) == Len(SelectSeq(net, LAMBDA endpoint : endpoint = "/api/config"))

ConfigStored ==
    /\ LLM_DISABLED_RUNTIME # Null
    /\ \E i \in 1..Len(calls) : calls[i].cfg.set

\* The step in which call i receives its config reply
ConfigReceived(i) == calls[i].pc = "config" /\ calls'[i].pc # "config"

FailedStoredAsEnabled ==
    \A i \in 1..Len(calls) :
        ConfigReceived(i) /\ calls'[i].cfg.value.error # Undefined =>
            LLM_DISABLED_RUNTIME' = Bool(FALSE)

C29_ConfigOnce ==
    /\ [](ConfigRequests(network) <= 1)
    /\ []((\E k \in 1..Len(network) : IsLlmEndpoint(network[k])) => ConfigStored)
    /\ [][FailedStoredAsEnabled]_vars

(***************************************************************************)
(* C30: request never rejects; a network failure, a non-2xx response or an *)
(* unparsable body gives a value with a non-empty error string and no      *)
(* data, a 2xx response with a parsable body gives data and no error; the  *)
(* upload wrappers report success = false exactly when request returned an *)
(* error, and setCurrentUploadId with a null or empty id reports success   *)
(* without a request.                                                      *)
(***************************************************************************)
IsErrorValue(v) == IsString(v.error) /\ v.error.s # "" /\ v.data = Undefined

RequestContract(fetched, response) ==
    /\ response.settled = "fulfilled"
    /\ IF fetched.kind = "response" /\ fetched.ok /\ fetched.body # Unparsable
       THEN response.value = ApiData(fetched.body)
       ELSE IsErrorValue(response.value)

WrapperContract(call) ==
    IF call.response.set
    THEN /\ call.outcome.settled = "fulfilled"
         /\ call.outcome.value.success = (call.response.value.value.error = Undefined)
    ELSE /\ call.op = "setCurrentUploadId"
         /\ ~Truthy(call.arg)
         /\ call.outcome = Fulfilled([success |-> TRUE, error |-> Undefined,
                                      uploadId |-> Undefined])

C30_RequestResolves ==
    ret # NoCall =>
        /\ ret.response.set => RequestContract(ret.fetched.value, ret.response.value)
        /\ ret.op \in {call.method : call \in UploadCalls} => WrapperContract(ret)
        /\ ret.op = "setCurrentUploadId" /\ ~Truthy(ret.arg) => ~ret.response.set

====
